---- MODULE Spec2Model ----
(***************************************************************************)
(* State-machine model of the moltwars world server (src/index.js): the    *)
(* tile grid and its generator, the action resolver run by the websocket   *)
(* message handler, the tick loop and its payloads, the world-view and     *)
(* REST read paths, and the boot logic (loadWorld).                        *)
(*                                                                         *)
(* Representation:                                                         *)
(*  - positions are JS numbers that take fractional values (tryMove with   *)
(*    0.5, 0.7, 0.75 steps); they are stored in units of 1/SUB tile, so    *)
(*    Math.floor(v) is (v \div SUB);                                        *)
(*  - Date.now() is the variable now, in units of TIME_UNIT ms;            *)
(*  - an inventory slot is a JS value: absent (undefined), NaN or a        *)
(*    number, encoded as a record [k, n];                                  *)
(*  - the 32-bit hashes of the noise source are kept as functions of the   *)
(*    same arguments (x, y, seedInt) with the same mixing steps, computed  *)
(*    modulo HashMod instead of 2^32.                                      *)
(***************************************************************************)
EXTENDS Integers, Sequences, FiniteSets, TLC

(* ------------------------------------------------------------------ *)
(* Bounds of the model (the configured world is 951 x 288, radius 12). *)
(* ------------------------------------------------------------------ *)
WORLD_W == 4
WORLD_H == 14
VIEW_RADIUS == 2
DirtDepth == 4
MaxCount == 2
MaxStat == 2
MaxClock == 9
AnimalCap == 3
NpcCap == 2
MaxPlaytime == 12
MaxGoals == 4
SettleTime == 24
NetChatWindow == 1

(* Representation units (not bounds). *)
SUB == 4 * 5
TIME_UNIT == 10 * 10
FP == 10 * 100
HashMod == 2 ^ 10

(* ------------------------------------------------------------------ *)
(* Tile kinds and item names.                                          *)
(* ------------------------------------------------------------------ *)
TILE_AIR == 0
TILE_DIRT == 1
TILE_STONE == 2
TILE_ORE == 3
TILE_TREE == 4
TILE_GRASS == 5
TILE_SKY == 6

ITEM_DIRT == "dirt"
ITEM_STONE == "stone"
ITEM_ORE == "ore"
ITEM_WOOD == "wood"
ITEM_SWORD == "sword"
ITEM_MEAT == "meat"

\* Item names that occur as inventory keys in the model: the ITEM table, the
\* default catalog's "ration", and nothing else (a message may name any string).
Items == {ITEM_DIRT, ITEM_STONE, ITEM_ORE, ITEM_WOOD, ITEM_SWORD, ITEM_MEAT, "ration"}

\* ITEM_DEFS.items of the built-in catalog: the weapon entries (tags include
\* 'weapon'), with dmg and cooldown (ms).
WEAPON_DEFS == [sword |-> [dmg |-> 5, cooldown |-> 700]]

\* ITEM_DEFS.recipes of the built-in catalog.
RECIPES == [ration |-> [in |-> [wood |-> 1, ore |-> 1], out |-> [ration |-> 1]]]

(* ------------------------------------------------------------------ *)
(* JS values of an inventory slot.                                     *)
(* ------------------------------------------------------------------ *)
Undef == [k |-> "undef", n |-> 0]
NaN == [k |-> "nan", n |-> 0]
Num(n) == [k |-> "num", n |-> n]

\* v || 0
OrZero(v) == IF v.k = "num" THEN v.n ELSE 0

\* v - c  (undefined - c and NaN - c are NaN, null - c is -c)
JsSub(v, c) ==
    IF v.k = "num" THEN Num(v.n - c) ELSE IF v.k = "null" THEN Num(0 - c) ELSE NaN

\* (v || 0) + c
JsAddOrZero(v, c) == Num(OrZero(v) + c)

\* v > 0   (false for undefined and NaN)
JsPositive(v) == v.k = "num" /\ v.n > 0

\* {} : an inventory with no key
EmptyInv == [i \in Items |-> Undef]

(* ------------------------------------------------------------------ *)
(* Tile grid access.                                                   *)
(* ------------------------------------------------------------------ *)
\* `const a = e; body` is written Let([a \in {e} |-> body]): e is evaluated
\* once and body sees its value.
Let(f) == CHOOSE out \in {ff[CHOOSE a \in DOMAIN ff : TRUE] : ff \in {f}} : TRUE

Min(a, b) == IF a < b THEN a ELSE b
Max(a, b) == IF a > b THEN a ELSE b
Abs(a) == IF a < 0 THEN -a ELSE a
Sign(a) == IF a > 0 THEN 1 ELSE IF a < 0 THEN -1 ELSE 0
Clamp(lo, hi, v) == Max(lo, Min(hi, v))

idx(x, y) == y * WORLD_W + x

\* A read of the Uint8Array: undefined (here -1, no tile kind) off its ends.
ArrGet(w, i) == IF i \in DOMAIN w THEN w[i] ELSE -1

\* A write to the Uint8Array: ignored off its ends.
ArrSet(w, i, t) == IF i \in DOMAIN w THEN [w EXCEPT ![i] = t] ELSE w

\* A guard that forgets the upper limits (used to test the claims on the guard).
OutOfBounds_lowerOnly(x, y) == x < 0 \/ y < 0

OutOfBounds(x, y) == x < 0 \/ y < 0 \/ x >= WORLD_W \/ y >= WORLD_H

getTileOf(w, x, y) == IF OutOfBounds(x, y) THEN TILE_AIR ELSE ArrGet(w, idx(x, y))

isSolid(t) == t # TILE_AIR /\ t # TILE_SKY

setTileOf(w, x, y, t) == IF OutOfBounds(x, y) THEN w ELSE ArrSet(w, idx(x, y), t)

\* getTile at a position that need not be whole: the guard compares the
\* numbers, the read is world[y * WORLD_W + x] (undefined, -1, when the index
\* is not a whole number).
getTileAt(w, xs, ys) ==
    IF xs < 0 \/ ys < 0 \/ xs >= WORLD_W * SUB \/ ys >= WORLD_H * SUB THEN TILE_AIR
    ELSE IF (ys * WORLD_W + xs) % SUB = 0 THEN ArrGet(w, (ys * WORLD_W + xs) \div SUB)
    ELSE -1

\* setTile at such a position: world[y * WORLD_W + x] = t writes nothing when
\* the index is not a whole number.
setTileAt(w, xs, ys, t) ==
    IF xs < 0 \/ ys < 0 \/ xs >= WORLD_W * SUB \/ ys >= WORLD_H * SUB THEN w
    ELSE IF (ys * WORLD_W + xs) % SUB = 0 THEN ArrSet(w, (ys * WORLD_W + xs) \div SUB, t)
    ELSE w

(* ------------------------------------------------------------------ *)
(* Seeded noise source.                                                *)
(* ------------------------------------------------------------------ *)
RECURSIVE Xor(_, _)
Xor(a, b) ==
    IF a = 0 THEN b
    ELSE IF b = 0 THEN a
    ELSE ((a + b) % 2) + 2 * Xor(a \div 2, b \div 2)

\* xmur3(String(seed))(), reduced modulo HashMod, for the seeds of the model.
\* (xmur3("moltwars")() = 2337779284, xmur3("alt")() = 1203254301.)
xmur3(seed) == IF seed = "moltwars" THEN 596 ELSE 29

\* v >> k on a signed value of the reduced width, kept as its unsigned image:
\* the sign bit is copied into the k vacated bits.
Sar(v, k) ==
    IF v < HashMod \div 2 THEN v \div (2 ^ k)
    ELSE v \div (2 ^ k) + HashMod - HashMod \div (2 ^ k)

\* hash2(x, y): the three mixing steps; the result is in 0..FP (units of 1/FP).
\* The last step, h ^= h >> 16, clears the sign bit, so the result is below FP/2.
hash2(x, y, si) ==
    LET h0 == (x * (374761393 % HashMod) + y * (668265263 % HashMod)
                 + si * (374761 % HashMod)) % HashMod
        h1 == (Xor(h0, Sar(h0, 4)) * (1274126177 % HashMod)) % HashMod
        h2 == Xor(h1, Sar(h1, 5))
    IN  (h2 * FP) \div (HashMod - 1)

lerp(a, b, t) == a + ((b - a) * t) \div FP

fade(t) == (((t * t) \div FP) * (3 * FP - 2 * t)) \div FP

\* noise2 at the point (xf/FP, yf/FP)
noise2(xf, yf, si) ==
    LET x0 == xf \div FP
        y0 == yf \div FP
        sx == fade(xf - x0 * FP)
        sy == fade(yf - y0 * FP)
        nx0 == lerp(hash2(x0, y0, si), hash2(x0 + 1, y0, si), sx)
        nx1 == lerp(hash2(x0, y0 + 1, si), hash2(x0 + 1, y0 + 1, si), sx)
    IN  lerp(nx0, nx1, sy)

noise1(xf, si) == noise2(xf, 0, si)

\* mulberry32(a): the i-th value (i >= 1) of the stream seeded with a, in 0..FP-1.
mulberry32(a, i) ==
    LET a1 == (a + i * (1831565813 % HashMod)) % HashMod
        t1 == (Xor(a1, a1 \div (2 ^ 5)) * ((2 * (a1 \div 2)) + 1)) % HashMod
        t2 == Xor(t1, (t1 + (Xor(t1, t1 \div (2 ^ 2)) * ((t1 \div 64) * 64 + 61 + 2 * ((t1 \div 2) % 2)))) % HashMod)
    IN  (Xor(t2, t2 \div (2 ^ 4)) * FP) \div HashMod

(* ------------------------------------------------------------------ *)
(* World generator (genWorld): height map, fill, caves, trees.         *)
(* ------------------------------------------------------------------ *)
minSurface == (WORLD_H * 10) \div 100
maxSurface == (WORLD_H * 35) \div 100
baseSurface == (WORLD_H * 22) \div 100

\* The octave sum of one column, in units of 1/FP: amp = H*0.08 halved per
\* octave, freq = 0.01 doubled per octave, n = noise1(x*freq)*2 - 1.
RECURSIVE octaves(_, _, _)
octaves(x, si, o) ==
    IF o = 4 THEN 0
    ELSE LET n == 2 * noise1(x * 10 * (2 ^ o), si) - FP
             amp == (WORLD_H * 80) \div (2 ^ o)
         IN  (n * amp) \div FP + octaves(x, si, o + 1)

genHeight(x, si) ==
    Clamp(minSurface, maxSurface, (baseSurface * FP + octaves(x, si, 0)) \div FP)

genSurface(si) == [x \in 0..(WORLD_W - 1) |-> genHeight(x, si)]

\* The fill loop and the cave loop of genWorld for one cell.
genCell(x, y, s, si) ==
    IF y > s + 2 /\ noise2(x * 45, y * 45, si) > 550 THEN TILE_AIR
    ELSE IF y < s - 1 THEN TILE_SKY
    ELSE IF y = s - 1 THEN TILE_GRASS
    ELSE IF y < s + DirtDepth THEN TILE_DIRT
    ELSE IF hash2(x, y, si) < 180 THEN TILE_ORE
    ELSE TILE_STONE

\* The tree loop: column x gets a tree when its rand() draw is below 0.05
\* (x \in treeCols) and its surface row is grass.
RECURSIVE genTrees(_, _, _, _)
genTrees(w, surf, treeCols, x) ==
    IF x = WORLD_W THEN w
    ELSE LET y == surf[x] - 1
             w1 == IF x \in treeCols /\ getTileOf(w, x, y) = TILE_GRASS
                   THEN setTileOf(setTileOf(w, x, y - 1, TILE_TREE), x, y - 2, TILE_TREE)
                   ELSE w
         IN  genTrees(w1, surf, treeCols, x + 1)

\* genWorld's tile grid for seedInt si and the tree draws treeCols.
genTiles(si, treeCols) ==
    LET surf == genSurface(si)
        filled == [i \in 0..(WORLD_W * WORLD_H - 1) |->
                     genCell(i % WORLD_W, i \div WORLD_W, surf[i % WORLD_W], si)]
    IN  genTrees(filled, surf, treeCols, 0)

\* The columns whose draw is below 0.05 when rand is mulberry32(a) and k draws
\* were made before the tree loop.
seededTreeCols(a, k) == {x \in 0..(WORLD_W - 1) : mulberry32(a, k + x + 1) < 50}


(* ------------------------------------------------------------------ *)
(* State.                                                              *)
(* ------------------------------------------------------------------ *)
VARIABLES
    world,        \* Uint8Array(WORLD_W * WORLD_H), row-major
    surfaceMap,   \* Int16Array(WORLD_W)
    players,      \* Map playerId -> player record
    sockets,      \* Map playerId -> ws, as its entries [pid, ws] in insertion order
    conns,        \* connection id -> [pid, readyState]: the ws objects with handlers
    chests,       \* Map "x,y" -> items
    animals,      \* Map key -> animal, in insertion order
    chatLog,      \* array of [ts, message]
    now,          \* Date.now()
    call,         \* history: the getTile/setTile call of the last step, or the boot's loadWorld
    attackAt,     \* history: per player, when its latest attack message arrived (-1: never)
    sent,         \* the messages and HTTP responses the last step put on connections
    npcs,         \* Map id -> npc, in insertion order
    villages,     \* array of [x, y]
    worldSockets, \* Map world-view connection id -> view rectangle or NoView
    seedInt,      \* the integer hash2 mixes in; 0 until setSeed runs
    rng,          \* what rand is bound to: Math.random, or a mulberry32 stream
    issued,       \* how many values randomUUID() has returned
    disk          \* the file at SAVE_PATH, which outlives the process

\* The state no message handler of the player channel writes.
hostVars == <<npcs, villages, worldSockets, seedInt, rng, issued, disk>>

vars == <<world, surfaceMap, players, sockets, conns, chests, animals, chatLog, now,
          call, attackAt, sent, hostVars>>

Null == "null"
NoCall == [op |-> "none", x |-> 0, y |-> 0, t |-> TILE_AIR, read |-> TILE_AIR, before |-> <<>>]
DEFAULT_CD == 800 \div TIME_UNIT
CHAT_MAX == 3

PlayerIds == {"p1", "p2"}
NameOf(id) == IF id = "p1" THEN "Ada" ELSE "Bob"
KeyOf(id) == IF id = "p1" THEN "key-p1" ELSE IF id = "p2" THEN "key-p2" ELSE "key-p3"

(* ------------------------------------------------------------------ *)
(* Helpers of the resolver.                                            *)
(* ------------------------------------------------------------------ *)
getTile(x, y) == getTileOf(world, x, y)

\* (mutant) the surface row itself, not two rows above it
findSurfaceYOf_surfaceRow(w, surf, x) == surf[Clamp(0, WORLD_W - 1, x)]

findSurfaceYOf(w, surf, x) ==
    LET sx == Clamp(0, WORLD_W - 1, x)
        s == surf[sx]
        hits == {y \in 0..(WORLD_H - 2) : isSolid(getTileOf(w, sx, y + 1))}
    IN  IF s # 0 /\ s > 1 THEN s - 2
        ELSE IF hits # {} THEN Max(0, (CHOOSE y \in hits : \A z \in hits : y <= z) - 1)
        ELSE (WORLD_H * 2) \div 10

findSurfaceY(x) == findSurfaceYOf(world, surfaceMap, x)

\* spawnPlayer(name) with the values its randomUUID() and rand() calls returned.
spawnPlayer(id, name, key, spawnX, w, surf, t) ==
    LET spawnY == Min(WORLD_H - 2, findSurfaceYOf(w, surf, spawnX) + 5)
    IN  [id |-> id, name |-> name, x |-> spawnX * SUB, y |-> spawnY * SUB, hp |-> 100,
         apiKey |-> key, inv |-> EmptyInv, active |-> Null, lastAttack |-> 0,
         lastSeen |-> t, look |-> 1,
         stats |-> [kills |-> 0, deaths |-> 0, blocksMined |-> 0, itemsCrafted |-> 0,
                    playtimeMs |-> 0, lastTick |-> t],
         spawn |-> [x |-> spawnX * SUB, y |-> spawnY * SUB]]

\* (mutant) a full history gives up its newest entry for the new one
addChatTo_evictsNewest(log, t, message) ==
    IF Len(log) >= CHAT_MAX
    THEN Append(SubSeq(log, 1, CHAT_MAX - 1), [ts |-> t, message |-> message])
    ELSE Append(log, [ts |-> t, message |-> message])

\* addChat(message)
addChatTo(log, t, message) ==
    LET l1 == Append(log, [ts |-> t, message |-> message])
    IN  IF Len(l1) > CHAT_MAX THEN Tail(l1) ELSE l1

\* broadcast(payload): one copy per registered connection that is open.
broadcast(payload) ==
    {[to |-> sockets[i].ws, payload |-> payload] :
        i \in {j \in 1..Len(sockets) : conns[sockets[j].ws].readyState = "open"}}

\* t -> item of the mine handler
minedItem(t) ==
    IF t = TILE_TREE THEN ITEM_WOOD
    ELSE IF t = TILE_ORE THEN ITEM_ORE
    ELSE IF t = TILE_STONE THEN ITEM_STONE
    ELSE ITEM_DIRT

\* map[tile] of the build handler (Null: no entry)
buildItem(tile) ==
    IF tile = TILE_DIRT THEN ITEM_DIRT
    ELSE IF tile = TILE_STONE THEN ITEM_STONE
    ELSE IF tile = TILE_ORE THEN ITEM_ORE
    ELSE IF tile = TILE_TREE THEN ITEM_WOOD
    ELSE Null

\* The chest key `${x},${y}` of two numbers, as the pair of them in 1/SUB units.
chestKey(x, y) == <<x, y>>

\* chests.get(key) || { items: {} }
chestOrEmpty(key) == IF key \in DOMAIN chests THEN chests[key] ELSE EmptyInv

\* chests.set(key, items)
chestsSet(ch, key, items) == [k \in DOMAIN ch \cup {key} |-> IF k = key THEN items ELSE ch[k]]

\* The connection a message handler runs on: a ws that passed authentication
\* as p and has not been closed.
canSend(c, p) == c \in DOMAIN conns /\ conns[c].pid = p /\ conns[c].readyState = "open"

\* p.lastSeen = Date.now(), the first statement of the message handler
seen(p) == [players EXCEPT ![p].lastSeen = now]

(* ------------------------------------------------------------------ *)
(* Message handler: one action per message type.                       *)
(* ------------------------------------------------------------------ *)
\* mine message; x, y are data.x, data.y in 1/SUB tile, so that numbers that
\* are not whole can be sent.
mine(p, x, y) ==
    LET t == getTileAt(world, x, y)
        item == minedItem(t)
        ps == seen(p)
    IN  /\ IF t # TILE_AIR /\ t # TILE_SKY
           THEN /\ world' = setTileAt(world, x, y, TILE_AIR)
                /\ players' = [ps EXCEPT ![p].inv[item] = JsAddOrZero(@, 1),
                                         ![p].stats.blocksMined = @ + 1]
           ELSE /\ world' = world
                /\ players' = ps
        /\ sent' = {}
        /\ UNCHANGED <<surfaceMap, sockets, conns, hostVars, chests, animals, chatLog, now>>

build(p, x, y, tile) ==
    LET item == buildItem(tile)
        ps == seen(p)
    IN  /\ IF getTile(x, y) = TILE_AIR /\ item # Null /\ OrZero(ps[p].inv[item]) > 0
           THEN /\ world' = setTileOf(world, x, y, tile)
                /\ players' = [ps EXCEPT ![p].inv[item] = JsSub(@, 1)]
           ELSE /\ world' = world
                /\ players' = ps
        /\ sent' = {}
        /\ UNCHANGED <<surfaceMap, sockets, conns, hostVars, chests, animals, chatLog, now>>

\* The recipe names a craft message carries in the model.
RecipeNames == {"ration", "plank"}

\* (mutant) ok as soon as one input is held
craftOk_anyInput(inv, r) == \E k \in DOMAIN r.in : ~(OrZero(inv[k]) < r.in[k])

\* ok of the craft handler: no input is short
craftOk(inv, r) == \A k \in DOMAIN r.in : ~(OrZero(inv[k]) < r.in[k])

\* the two loops of the craft handler: inputs down, then outputs up
craftApply(inv, r) ==
    LET i1 == [k \in Items |-> IF k \in DOMAIN r.in THEN JsSub(inv[k], r.in[k]) ELSE inv[k]]
    IN  [k \in Items |-> IF k \in DOMAIN r.out THEN JsAddOrZero(i1[k], r.out[k]) ELSE i1[k]]

craft(p, recipe) ==
    LET ps == seen(p)
    IN  /\ IF recipe \in DOMAIN RECIPES /\ craftOk(ps[p].inv, RECIPES[recipe])
           THEN players' = [ps EXCEPT ![p].inv = craftApply(@, RECIPES[recipe]),
                                      ![p].stats.itemsCrafted = @ + 1]
           ELSE players' = ps
        /\ sent' = {}
        /\ UNCHANGED <<world, surfaceMap, sockets, conns, hostVars, chests, animals, chatLog, now>>

\* (mutant) no cap on the health an eaten piece of meat gives
eat_uncapped(p) ==
    /\ players' = [players EXCEPT ![p].inv[ITEM_MEAT] = JsSub(@, 1), ![p].hp = @ + 20]
    /\ sent' = {}
    /\ UNCHANGED <<world, surfaceMap, sockets, conns, hostVars, chests, animals, chatLog, now>>

eat(p) ==
    LET ps == seen(p)
    IN  /\ IF OrZero(ps[p].inv[ITEM_MEAT]) > 0
           THEN players' = [ps EXCEPT ![p].inv[ITEM_MEAT] = JsSub(@, 1),
                                      ![p].hp = Min(100, @ + 20)]
           ELSE players' = ps
        /\ sent' = {}
        /\ UNCHANGED <<world, surfaceMap, sockets, conns, hostVars, chests, animals, chatLog, now>>

openChest(p, x, y) ==
    LET key == chestKey(x * SUB, y * SUB)
    IN  /\ players' = seen(p)
        /\ chests' = IF key \in DOMAIN chests THEN chests ELSE chestsSet(chests, key, EmptyInv)
        /\ sent' = {}
        /\ UNCHANGED <<world, surfaceMap, sockets, conns, hostVars, animals, chatLog, now>>

putChest(p, x, y, item, count) ==
    LET key == chestKey(x * SUB, y * SUB)
        chest == chestOrEmpty(key)
        ps == seen(p)
    IN  /\ IF OrZero(ps[p].inv[item]) >= count
           THEN /\ players' = [ps EXCEPT ![p].inv[item] = JsSub(@, count)]
                /\ chests' = chestsSet(chests, key,
                                 [chest EXCEPT ![item] = JsAddOrZero(@, count)])
           ELSE /\ players' = ps
                /\ chests' = chests
        /\ sent' = {}
        /\ UNCHANGED <<world, surfaceMap, sockets, conns, hostVars, animals, chatLog, now>>

takeChest(p, x, y, item, count) ==
    LET key == chestKey(x * SUB, y * SUB)
        ps == seen(p)
    IN  /\ IF key \in DOMAIN chests /\ OrZero(chests[key][item]) >= count
           THEN /\ chests' = [chests EXCEPT ![key][item] = JsSub(@, count)]
                /\ players' = [ps EXCEPT ![p].inv[item] = JsAddOrZero(@, count)]
           ELSE /\ players' = ps
                /\ chests' = chests
        /\ sent' = {}
        /\ UNCHANGED <<world, surfaceMap, sockets, conns, hostVars, animals, chatLog, now>>

equip(p, item) ==
    LET ps == seen(p)
    IN  /\ players' = IF OrZero(ps[p].inv[item]) > 0
                      THEN [ps EXCEPT ![p].active = item]
                      ELSE ps
        /\ sent' = {}
        /\ UNCHANGED <<world, surfaceMap, sockets, conns, hostVars, chests, animals, chatLog, now>>

unequip(p) ==
    /\ players' = [seen(p) EXCEPT ![p].active = Null]
    /\ sent' = {}
    /\ UNCHANGED <<world, surfaceMap, sockets, conns, hostVars, chests, animals, chatLog, now>>

\* (mutant) the sword's cooldown whatever is equipped
weaponCd_alwaysSword(active) == WEAPON_DEFS[ITEM_SWORD].cooldown \div TIME_UNIT

\* dmg and cd of the attack handler for the actor's active item
weaponDmg(active) ==
    IF active \in DOMAIN WEAPON_DEFS THEN WEAPON_DEFS[active].dmg ELSE 10

weaponCd(active) ==
    IF active \in DOMAIN WEAPON_DEFS THEN WEAPON_DEFS[active].cooldown \div TIME_UNIT
    ELSE DEFAULT_CD

\* The loot loop of the death branch: counts above zero are added to the chest.
dropLoot(chest, inv) ==
    [i \in Items |-> IF JsPositive(inv[i]) THEN JsAddOrZero(chest[i], inv[i].n) ELSE chest[i]]

deathMsg(name) == <<name, " died and respawned">>

\* (mutant) the handler yields between moving the loot and resetting the
\* victim, so that other callbacks run on the half-applied death
attack_yieldsMidDeath(p, targetId) ==
    LET t == players[targetId]
        key == chestKey(t.x, t.y)
    IN  /\ players' = [players EXCEPT ![p].lastAttack = now,
                                      ![targetId].hp = Max(0, t.hp - weaponDmg(players[p].active)),
                                      ![targetId].inv = IF t.hp - weaponDmg(players[p].active) <= 0
                                                        THEN EmptyInv ELSE @]
        /\ chests' = IF t.hp - weaponDmg(players[p].active) <= 0
                     THEN chestsSet(chests, key, dropLoot(chestOrEmpty(key), t.inv))
                     ELSE chests
        /\ sent' = {}
        /\ UNCHANGED <<world, surfaceMap, sockets, conns, hostVars, animals, chatLog, now>>

attack(p, targetId) ==
    LET ps == seen(p)
        dmg == weaponDmg(ps[p].active)
        cd == weaponCd(ps[p].active)
        ps1 == [ps EXCEPT ![p].lastAttack = now]
        t == ps1[targetId]
        hp1 == Max(0, t.hp - dmg)
        key == chestKey(t.x, t.y)
        ps2 == [ps1 EXCEPT ![p].stats.kills = @ + 1]
        ps3 == [ps2 EXCEPT ![targetId].stats.deaths = @ + 1,
                           ![targetId].inv = EmptyInv,
                           ![targetId].hp = 100,
                           ![targetId].x = t.spawn.x,
                           ![targetId].y = findSurfaceY(t.spawn.x \div SUB) * SUB]
    IN  /\ IF now - ps[p].lastAttack < cd
           THEN /\ players' = ps
                /\ UNCHANGED <<chests, chatLog>>
                /\ sent' = {}
           ELSE IF targetId \notin DOMAIN players
           THEN /\ players' = ps1
                /\ UNCHANGED <<chests, chatLog>>
                /\ sent' = {}
           ELSE IF hp1 # 0
           THEN /\ players' = [ps1 EXCEPT ![targetId].hp = hp1]
                /\ UNCHANGED <<chests, chatLog>>
                /\ sent' = {}
           ELSE /\ players' = ps3
                /\ chests' = chestsSet(chests, key, dropLoot(chestOrEmpty(key), t.inv))
                /\ chatLog' = addChatTo(chatLog, now, deathMsg(t.name))
                /\ sent' = broadcast([type |-> "chat", message |-> deathMsg(t.name)])
        /\ UNCHANGED <<world, surfaceMap, sockets, conns, hostVars, animals, now>>

\* animals.get(key) / animals.delete(key) on the insertion-ordered Map
animalsHas(key) == \E i \in 1..Len(animals) : animals[i].key = key
animalsIndex(key) == CHOOSE i \in 1..Len(animals) : animals[i].key = key
animalsDelete(as, key) == SelectSeq(as, LAMBDA a : a.key # key)

attackAnimal(p, animalId) ==
    LET ps == seen(p)
        i == animalsIndex(animalId)
        a == animals[i]
        a1 == [a EXCEPT !.hp = @ - 5,
                        !.vx = Sign(a.x - ps[p].x) * 2,
                        !.vy = Sign(a.y - ps[p].y) * 2]
        as1 == [animals EXCEPT ![i] = a1]
    IN  /\ IF ~animalsHas(animalId)
           THEN /\ players' = ps
                /\ animals' = animals
           ELSE IF a1.hp <= 0
           THEN /\ animals' = animalsDelete(as1, a1.id)
                /\ players' = [ps EXCEPT ![p].inv[ITEM_MEAT] = JsAddOrZero(@, 1)]
           ELSE /\ animals' = as1
                /\ players' = ps
        /\ sent' = {}
        /\ UNCHANGED <<world, surfaceMap, sockets, conns, hostVars, chests, chatLog, now>>

\* The texts a chat message carries in the model.

chat(p, text) ==
    LET msg == <<players[p].name, ": ", text>>
    IN  /\ players' = seen(p)
        /\ chatLog' = addChatTo(chatLog, now, msg)
        /\ sent' = broadcast([type |-> "chat", message |-> msg])
        /\ UNCHANGED <<world, surfaceMap, sockets, conns, hostVars, chests, animals, now>>

(* ------------------------------------------------------------------ *)
(* Movement and gravity.  Positions are in 1/SUB tile; w is the grid.  *)
(* ------------------------------------------------------------------ *)
\* (mutant) the target is not clamped to the grid
tryMove_unclamped(w, e, dx, dy) ==
    IF ~isSolid(getTileOf(w, (e.x + dx) \div SUB, (e.y + dy) \div SUB))
    THEN [e EXCEPT !.x = e.x + dx, !.y = e.y + dy]
    ELSE e

tryMove(w, e, dx, dy) ==
    LET nx == Clamp(0, (WORLD_W - 1) * SUB, e.x + dx)
        ny == Clamp(0, (WORLD_H - 1) * SUB, e.y + dy)
    IN  IF ~isSolid(getTileOf(w, nx \div SUB, ny \div SUB))
        THEN [e EXCEPT !.x = nx, !.y = ny]
        ELSE e

\* (mutant) no push out of solids
applyGravity_fallOnly(w, e) ==
    LET y == e.y \div SUB
    IN  IF ~isSolid(getTileOf(w, e.x \div SUB, y + 1)) /\ y + 1 < WORLD_H
        THEN [e EXCEPT !.y = Min(WORLD_H - 1, y + 1) * SUB]
        ELSE e

applyGravity(w, e) ==
    LET x == e.x \div SUB
        y == e.y \div SUB
        y1 == IF ~isSolid(getTileOf(w, x, y + 1)) /\ y + 1 < WORLD_H
              THEN Min(WORLD_H - 1, y + 1) * SUB
              ELSE e.y
    IN  IF isSolid(getTileOf(w, x, y1 \div SUB))
        THEN [e EXCEPT !.y = Max(0, y - 1) * SUB]
        ELSE [e EXCEPT !.y = y1]

\* surfaceMap[clamp(floor(x))] || Math.floor(WORLD_H * 0.25)
surfaceAt(surf, xs) ==
    LET s == surf[Clamp(0, WORLD_W - 1, xs \div SUB)]
    IN  IF s # 0 THEN s ELSE (WORLD_H * 25) \div 100

isBelowDirt(surf, xs, ys) == ys > surfaceAt(surf, xs) * SUB

\* avoidVoid and keepAboveGround: the entity afterwards and the value returned.
avoidVoid(w, e) ==
    LET nx == Clamp(0, WORLD_W - 1, e.x \div SUB)
        below == getTileOf(w, nx, Min(WORLD_H - 1, (e.y + SUB) \div SUB))
    IN  IF e.y >= (WORLD_H - 8) * SUB /\ ~isSolid(below)
        THEN [hit |-> TRUE,
              e |-> Let([e1 \in {tryMove(w, e, 0, -SUB)} |-> tryMove(w, e1, 0, -SUB)])]
        ELSE [hit |-> FALSE, e |-> e]

keepAboveGround(w, surf, e) ==
    IF e.y > (surfaceAt(surf, e.x) - 1) * SUB
    THEN [hit |-> TRUE, e |-> tryMove(w, e, 0, -SUB)]
    ELSE [hit |-> FALSE, e |-> e]

\* move message: dx, dy are data.dx || 0 and data.dy || 0, in 1/SUB tile.
move(p, dx, dy) ==
    LET ps == seen(p)
        cx == Clamp(-SUB, SUB, dx)
        cy == Clamp(-SUB, SUB, dy)
        p1 == IF cx # 0 THEN [ps[p] EXCEPT !.look = IF cx > 0 THEN 1 ELSE 0] ELSE ps[p]
    IN  /\ players' = [ps EXCEPT ![p] = tryMove(world, p1, cx, cy)]
        /\ sent' = {}
        /\ UNCHANGED <<world, surfaceMap, sockets, conns, hostVars, chests, animals, chatLog, now>>

(* ------------------------------------------------------------------ *)
(* The tick: animals, NPCs, then one payload per registered socket.    *)
(* r holds the values the rand() calls of one tick return, one per     *)
(* kind of call site, and k = issued.                                  *)
(* ------------------------------------------------------------------ *)
UuidPool == <<"uuid-a", "uuid-b", "uuid-c", "uuid-d", "uuid-e", "uuid-f">>
randomUUID(k) == UuidPool[k]

\* n.roamX == null
NoRoam == 0 - 1

\* n.goalDir || (rand() < 0.5 ? -1 : 1)
dirOr(goalDir, r) == IF goalDir # 0 THEN goalDir ELSE r.coin

animalStep(w, surf, a, r) ==
    Let([av \in {avoidVoid(w, [a EXCEPT !.y = Min(a.y, (surfaceAt(surf, a.x) - 1) * SUB)])} |->
    Let([kg \in {IF av.hit THEN av ELSE keepAboveGround(w, surf, av.e)} |->
         LET a2 == IF kg.hit THEN [kg.e EXCEPT !.vx = r.vx] ELSE kg.e
             a3 == IF r.wander THEN [a2 EXCEPT !.vx = r.vx, !.vy = 0] ELSE a2
         IN  tryMove(w, a3, a3.vx * (SUB \div 2), 0)])])

\* (mutant) the cap keeps the oldest entries
tickAnimals_evictsNewest(as, w, surf, r, k) ==
    LET capped == IF Len(as) > AnimalCap THEN SubSeq(as, 1, AnimalCap) ELSE as
        grown == IF Len(capped) < AnimalCap /\ r.animalSpawn
                 THEN Append(capped,
                        [key |-> randomUUID(k + 1), id |-> randomUUID(k + 2),
                         x |-> r.x * SUB, y |-> Max(1, surfaceAt(surf, r.x * SUB) - 1) * SUB,
                         hp |-> 20, vx |-> 0, vy |-> 0])
                 ELSE capped
    IN  [i \in 1..Len(grown) |-> animalStep(w, surf, grown[i], r)]

tickAnimals(as, w, surf, r, k) ==
    LET capped == IF Len(as) > AnimalCap THEN SubSeq(as, Len(as) - AnimalCap + 1, Len(as)) ELSE as
        grown == IF Len(capped) < AnimalCap /\ r.animalSpawn
                 THEN Append(capped,
                        [key |-> randomUUID(k + 1), id |-> randomUUID(k + 2),
                         x |-> r.x * SUB, y |-> Max(1, surfaceAt(surf, r.x * SUB) - 1) * SUB,
                         hp |-> 20, vx |-> 0, vy |-> 0])
                 ELSE capped
    IN  [i \in 1..Len(grown) |-> animalStep(w, surf, grown[i], r)]

\* The record genNpcs and the respawn of tickNpcs build.
newNpc(id, name, r) ==
    [id |-> id, name |-> name, x |-> r.x * SUB,
     y |-> ((WORLD_H * 4500 + r.depth * WORLD_H * 50) \div 10000) * SUB,
     hp |-> 100, inv |-> EmptyInv, vx |-> 0, vy |-> 0, look |-> Null,
     goal |-> Null, goalUntil |-> 0, goalDir |-> 0, goalStage |-> 0, roamX |-> r.x,
     stats |-> [blocksMined |-> 0, itemsCrafted |-> 0, playtimeMs |-> 0]]

\* (mutant) a two-phase counter: shaft and diag alternate underground
assignNpcGoal_twoPhase(surf, n, r, t) ==
    [n EXCEPT !.goal = IF isBelowDirt(surf, n.x, n.y) /\ n.goalStage % 2 = 1 THEN "diag" ELSE "shaft",
              !.goalStage = IF isBelowDirt(surf, n.x, n.y) THEN (n.goalStage + 1) % 2 ELSE @,
              !.goalDir = IF n.roamX # NoRoam THEN (IF n.roamX * SUB > n.x THEN 1 ELSE -1) ELSE r.coin,
              !.goalUntil = t + (20000 + r.span) \div TIME_UNIT]

assignNpcGoal(surf, n, r, t) ==
    LET stage == n.goalStage % 3
        below == isBelowDirt(surf, n.x, n.y)
    IN  [n EXCEPT !.goal = IF below /\ stage = 1 THEN "diag" ELSE "shaft",
                  !.goalStage = IF below THEN (stage + 1) % 3 ELSE @,
                  !.goalDir = IF n.roamX # NoRoam
                              THEN (IF n.roamX * SUB > n.x THEN 1 ELSE -1)
                              ELSE r.coin,
                  !.goalUntil = t + (20000 + r.span) \div TIME_UNIT]

\* The first statements of the NPC loop, which nearbyNpcs repeats: roam
\* target, lift from the deep, playtime.
npcRoam(w, n, r) ==
    LET n1 == IF n.roamX = NoRoam THEN [n EXCEPT !.roamX = r.x] ELSE n
        n2 == IF Abs(n1.x - n1.roamX * SUB) < 5 * SUB THEN [n1 EXCEPT !.roamX = r.x] ELSE n1
    IN  Let([n3 \in {IF n2.y * 10 > WORLD_H * 8 * SUB THEN tryMove(w, n2, 0, -SUB) ELSE n2} |->
             [n3 EXCEPT !.stats.playtimeMs = @ + 100 \div TIME_UNIT]])

\* An NPC takes the tile at (tx, ty) if there is one: [n, w] afterwards.
npcMine(w, n, tx, ty, counted) ==
    LET t == getTileOf(w, tx, ty)
    IN  IF t # TILE_AIR /\ t # TILE_SKY
        THEN [n |-> [n EXCEPT !.inv[minedItem(t)] = JsAddOrZero(@, 1),
                               !.stats.blocksMined = IF counted THEN @ + 1 ELSE @],
              w |-> setTileOf(w, tx, ty, TILE_AIR)]
        ELSE [n |-> n, w |-> w]

\* The goal's movement of the NPC loop for NPC c: [n, w] afterwards.
npcGo(w, surf, c, r) ==
    LET goal == IF c.goal = Null THEN "wander" ELSE c.goal
        dir == dirOr(c.goalDir, r)
        turned == IF r.turn THEN [c EXCEPT !.vx = dir] ELSE c
        strolled == IF r.wander THEN [c EXCEPT !.vx = r.vx] ELSE c
    IN  IF goal = "shaft"
           THEN [n |-> tryMove(w, [c EXCEPT !.vx = dir], dir * ((7 * SUB) \div 10), 0), w |-> w]
        ELSE IF goal = "diag"
           THEN [n |-> tryMove(w, [c EXCEPT !.vx = dir], dir * ((3 * SUB) \div 4), (3 * SUB) \div 4),
                 w |-> w]
        ELSE IF goal = "surface"
           THEN Let([kg \in {keepAboveGround(w, surf, c)} |->
                Let([up \in {[kg.e EXCEPT !.vx = 0, !.vy = -1]} |->
                     IF ~kg.hit
                     THEN [n |-> tryMove(w, [kg.e EXCEPT !.vx = dir], dir * ((3 * SUB) \div 4), 0),
                           w |-> w]
                     ELSE IF getTileOf(w, up.x \div SUB, (up.y - SUB) \div SUB)
                                \notin {TILE_AIR, TILE_SKY}
                     THEN npcMine(w, up, up.x \div SUB, (up.y - SUB) \div SUB, TRUE)
                     ELSE [n |-> tryMove(w, up, 0, -SUB), w |-> w]])])
        ELSE IF goal = "tunnel"
           THEN [n |-> tryMove(w, [c EXCEPT !.vx = dir], dir * ((9 * SUB) \div 10), 0), w |-> w]
        ELSE IF goal = "build"
           THEN [n |-> tryMove(w, turned, turned.vx * ((3 * SUB) \div 4), 0), w |-> w]
        ELSE [n |-> tryMove(w, strolled, strolled.vx * SUB, 0), w |-> w]

\* The two mining steps that end the NPC loop, for NPC e on grid w.
npcDig(w, surf, e, goal, r) ==
    Let([f \in {IF goal \in {"tunnel", "wander"} /\ r.mineFwd
         THEN npcMine(w, e, (e.x + dirOr(e.goalDir, r) * SUB) \div SUB, e.y \div SUB, TRUE)
         ELSE [n |-> e, w |-> w]} |->
         LET dx == IF goal \in {"tunnel", "shaft", "diag"} THEN dirOr(f.n.goalDir, r) ELSE r.vx
             dy == IF goal \in {"tunnel", "shaft"} THEN 0 ELSE IF goal = "diag" THEN 1 ELSE r.coin
         IN  IF isBelowDirt(surf, f.n.x, f.n.y) /\ r.mine
             THEN npcMine(f.w, f.n, (f.n.x + dx * SUB) \div SUB, (f.n.y + dy * SUB) \div SUB, FALSE)
             ELSE f])

\* One pass of the NPC loop of tickNpcs: [n, w] afterwards.
npcStep(w, surf, n0, r, t) ==
    Let([a \in {npcRoam(w, n0, r)} |->
    Let([b \in {IF a.goal = Null \/ t > a.goalUntil THEN assignNpcGoal(surf, a, r, t) ELSE a} |->
    Let([av \in {avoidVoid(w, b)} |->
    Let([c \in {IF av.hit THEN tryMove(w, [av.e EXCEPT !.vx = 0, !.vy = -1], 0, -SUB) ELSE av.e} |->
    Let([m \in {npcGo(w, surf, c, r)} |->
    Let([e \in {applyGravity(m.w, IF m.n.vx # 0
                           THEN [m.n EXCEPT !.look = IF m.n.vx > 0 THEN 1 ELSE 0]
                           ELSE m.n)} |->
         npcDig(m.w, surf, e, IF c.goal = Null THEN "wander" ELSE c.goal, r)])])])])])])

RECURSIVE npcLoop(_, _, _, _, _, _)
npcLoop(ns, i, w, surf, r, t) ==
    IF i > Len(ns) THEN [npcs |-> ns, w |-> w]
    ELSE Let([s \in {npcStep(w, surf, ns[i], r, t)} |->
         Let([ns1 \in {[ns EXCEPT ![i] = s.n]} |-> npcLoop(ns1, i + 1, s.w, surf, r, t)])])

tickNpcs(ns, w, surf, r, t, k) ==
    LET capped == IF Len(ns) > NpcCap THEN SubSeq(ns, Len(ns) - NpcCap + 1, Len(ns)) ELSE ns
        grown == IF Len(capped) < NpcCap /\ r.npcSpawn
                 THEN Append(capped, newNpc(randomUUID(k + 1), r.name, r))
                 ELSE capped
    IN  npcLoop(grown, 1, w, surf, r, t)

\* (mutant) the record is passed on whole
strip_none(p) == p

\* ({ apiKey, ...rest }) => rest
strip(p) == [f \in DOMAIN p \ {"apiKey"} |-> p[f]]

\* (mutant) only the horizontal distance is compared
within_xOnly(o, p) == Abs(o.x - p.x) <= VIEW_RADIUS * SUB

\* Math.abs(o.x - p.x) <= VIEW_RADIUS && Math.abs(o.y - p.y) <= VIEW_RADIUS
within(o, p) ==
    /\ Abs(o.x - p.x) <= VIEW_RADIUS * SUB
    /\ Abs(o.y - p.y) <= VIEW_RADIUS * SUB

INACTIVE_TIMEOUT_MS == (30 * 1000) \div TIME_UNIT
isActivePlayer(p, t) == p.lastSeen # 0 /\ t - p.lastSeen < INACTIVE_TIMEOUT_MS

\* Array.from(players.values()): the records in the order the ids were set.
PlayerOrder == <<"p1", "p2", "p3">>
playersValues(ps) ==
    LET ids == SelectSeq(PlayerOrder, LAMBDA id : id \in DOMAIN ps)
    IN  [i \in 1..Len(ids) |-> ps[ids[i]]]

getViewport(w, p) ==
    [dy \in (-VIEW_RADIUS)..VIEW_RADIUS |->
        [dx \in (-VIEW_RADIUS)..VIEW_RADIUS |-> getTileAt(w, p.x + dx * SUB, p.y + dy * SUB)]]

nearbyChests(p) ==
    {[x |-> k[1], y |-> k[2], items |-> chests[k]] :
        k \in {c \in DOMAIN chests : within([x |-> c[1], y |-> c[2]], p)}}

\* The body of the tick's socket loop for player id: the player after gravity,
\* the NPCs after nearbyNpcs, and the payload.
socketTick(id, ps, ns, as, w, surf, r, t) ==
    Let([p0 \in {applyGravity(w, [ps[id] EXCEPT !.lastSeen = t])} |->
    Let([p1 \in {IF p0.y <= (surfaceAt(surf, p0.x) - 1) * SUB THEN tryMove(w, p0, 0, SUB) ELSE p0} |->
    Let([p \in {[p1 EXCEPT !.stats.playtimeMs =
                        @ + Max(0, t - (IF p1.stats.lastTick # 0 THEN p1.stats.lastTick ELSE t)),
                    !.stats.lastTick = t]} |->
    Let([ps1 \in {[ps EXCEPT ![id] = p]} |->
    Let([ns1 \in {[i \in 1..Len(ns) |-> npcRoam(w, ns[i], r)]} |->
    Let([near \in {SelectSeq(playersValues(ps1), LAMBDA o : isActivePlayer(o, t) /\ within(o, p))} |->
         [players |-> ps1,
          npcs |-> ns1,
          payload |->
             [type |-> "tick",
              player |-> [id |-> p.id, x |-> p.x, y |-> p.y, hp |-> p.hp, inv |-> p.inv,
                          active |-> p.active, look |-> p.look],
              players |-> [i \in 1..Len(near) |-> strip(near[i])],
              tiles |-> getViewport(w, p),
              chests |-> nearbyChests(p),
              animals |-> SelectSeq(as, LAMBDA a : within(a, p)),
              npcs |-> SelectSeq(ns1, LAMBDA n : within(n, p))]]])])])])])])

RECURSIVE tickSockets(_, _, _, _, _, _, _, _, _)
tickSockets(ids, ps, ns, as, w, surf, r, t, out) ==
    IF ids = <<>> THEN [players |-> ps, npcs |-> ns, sent |-> out]
    ELSE IF \/ conns[Head(ids).ws].readyState # "open"
            \/ Head(ids).pid \notin DOMAIN ps
    THEN tickSockets(Tail(ids), ps, ns, as, w, surf, r, t, out)
    ELSE Let([s \in {socketTick(Head(ids).pid, ps, ns, as, w, surf, r, t)} |->
         Let([out1 \in {out \cup {[to |-> Head(ids).ws, payload |-> s.payload]}} |->
              tickSockets(Tail(ids), s.players, s.npcs, as, w, surf, r, t, out1)])])

\* (mutant) a registered socket that is not open holds the whole pass up:
\* nothing is sent in a tick that meets one
tickResult_heldUp(r) ==
    Let([as1 \in {tickAnimals(animals, world, surfaceMap, r, issued)} |->
    Let([k1 \in {issued + (IF Len(animals) < AnimalCap /\ r.animalSpawn THEN 2 ELSE 0)} |->
    Let([nt \in {tickNpcs(npcs, world, surfaceMap, r, now, k1)} |->
    Let([st \in {tickSockets(sockets, players, nt.npcs, as1, nt.w, surfaceMap, r, now, {})} |->
         [animals |-> as1, world |-> nt.w, npcs |-> st.npcs, players |-> st.players,
          sent |-> IF \E i \in 1..Len(sockets) : conns[sockets[i].ws].readyState # "open"
                   THEN {} ELSE st.sent,
          issued |-> k1 + (IF Len(npcs) < NpcCap /\ r.npcSpawn THEN 1 ELSE 0)]])])])])

\* What one pass of the tick interval leaves: animals, world, NPCs, players,
\* the payloads sent and the number of UUIDs issued.
tickResult(r) ==
    Let([as1 \in {tickAnimals(animals, world, surfaceMap, r, issued)} |->
    Let([k1 \in {issued + (IF Len(animals) < AnimalCap /\ r.animalSpawn THEN 2 ELSE 0)} |->
    Let([nt \in {tickNpcs(npcs, world, surfaceMap, r, now, k1)} |->
    Let([st \in {tickSockets(sockets, players, nt.npcs, as1, nt.w, surfaceMap, r, now, {})} |->
         [animals |-> as1, world |-> nt.w, npcs |-> st.npcs, players |-> st.players,
          sent |-> st.sent,
          issued |-> k1 + (IF Len(npcs) < NpcCap /\ r.npcSpawn THEN 1 ELSE 0)]])])])])

tick(r) ==
    \E res \in {tickResult(r)} :
        /\ res.issued <= Len(UuidPool)
        /\ animals' = res.animals
        /\ world' = res.world
        /\ npcs' = res.npcs
        /\ players' = res.players
        /\ sent' = res.sent
        /\ issued' = res.issued
        /\ UNCHANGED <<surfaceMap, sockets, conns, chests, chatLog, now,
                       villages, worldSockets, seedInt, rng, disk>>

(* ------------------------------------------------------------------ *)
(* The public world-view channel and the chatter timers.               *)
(* ------------------------------------------------------------------ *)
\* worldSockets.set(ws, null): no view yet (a set view has w >= 1).
NoView == [x |-> 0, y |-> 0, w |-> 0, h |-> 0]

\* wssWorld connection: the socket is registered without a view.
worldConnect(c) ==
    /\ c \notin DOMAIN conns
    /\ conns' = [k \in DOMAIN conns \cup {c} |->
                    IF k = c THEN [pid |-> Null, readyState |-> "open"] ELSE conns[k]]
    /\ worldSockets' = [k \in DOMAIN worldSockets \cup {c} |->
                           IF k = c THEN NoView ELSE worldSockets[k]]
    /\ sent' = {}
    /\ UNCHANGED <<world, surfaceMap, players, sockets, chests, animals, chatLog, now,
                   npcs, villages, seedInt, rng, issued, disk>>

\* view message with finite numbers x, y, w, h
view(c, x, y, w, h) ==
    /\ c \in DOMAIN worldSockets /\ conns[c].readyState = "open"
    /\ worldSockets' = [worldSockets EXCEPT
                          ![c] = [x |-> Max(0, x), y |-> Max(0, y), w |-> Max(1, w), h |-> Max(1, h)]]
    /\ sent' = {}
    /\ UNCHANGED <<world, surfaceMap, players, sockets, conns, chests, animals, chatLog, now,
                   npcs, villages, seedInt, rng, issued, disk>>

getRectTiles(x, y, w, h) ==
    [yy \in 0..(h - 1) |-> [xx \in 0..(w - 1) |-> getTile(x + xx, y + yy)]]

\* players of the world payloads: the active ones, without their apiKey
activePlayers ==
    LET act == SelectSeq(playersValues(players), LAMBDA o : isActivePlayer(o, now))
    IN  [i \in 1..Len(act) |-> strip(act[i])]

worldPayload(v) ==
    LET x == Min(WORLD_W - 1, Max(0, v.x))
        y == Min(WORLD_H - 1, Max(0, v.y))
        w == Min(WORLD_W - x, Max(1, v.w))
        h == Min(WORLD_H - y, Max(1, v.h))
    IN  [type |-> "world", ok |-> TRUE, worldWidth |-> WORLD_W, worldHeight |-> WORLD_H,
         x |-> x, y |-> y, w |-> w, h |-> h, tiles |-> getRectTiles(x, y, w, h),
         players |-> activePlayers, animals |-> animals, npcs |-> npcs, chat |-> chatLog]

\* The 250 ms interval: one payload per open world socket that has a view.
worldBroadcast ==
    /\ DOMAIN worldSockets # {}
    /\ sent' = {[to |-> c, payload |-> worldPayload(worldSockets[c])] :
                  c \in {k \in DOMAIN worldSockets :
                            conns[k].readyState = "open" /\ worldSockets[k] # NoView}}
    /\ UNCHANGED <<world, surfaceMap, players, sockets, conns, chests, animals, chatLog, now,
                   hostVars>>

\* broadcastWorld(payload): `for (const ws of worldSockets)` walks the Map's
\* [ws, view] pairs, and a pair has no readyState, so no copy is sent.
broadcastWorld(payload) ==
    {[to |-> e[1], payload |-> payload] :
        e \in {q \in {<<c, worldSockets[c]>> : c \in DOMAIN worldSockets} : "readyState" \in {}}}

NPC_CHAT == <<"Want to trade food for ore?">>

\* The 5 s interval when its first draw is at most 0.15: NPC i says text j.
npcChatter(i, j) ==
    LET msg == <<npcs[i].name, ": ", NPC_CHAT[j]>>
    IN  /\ chatLog' = addChatTo(chatLog, now, msg)
        /\ sent' = broadcast([type |-> "chat", message |-> msg])
                     \cup broadcastWorld([type |-> "npcChat", npcId |-> npcs[i].id,
                                          message |-> msg, ttlMs |-> 6000])
        /\ UNCHANGED <<world, surfaceMap, players, sockets, conns, chests, animals, now,
                       hostVars>>

\* The 20 s interval: roll picks the form, a and b are the NPCs drawn.
systemChatter(roll, a, b) ==
    LET msg == IF roll = 0 THEN <<npcs[a].name, " joined the server">>
               ELSE IF roll = 1 THEN <<npcs[a].name, " left the server">>
               ELSE <<npcs[a].name, " killed ", npcs[b].name>>
    IN  /\ roll = 2 => Len(npcs) >= 2
        /\ chatLog' = addChatTo(chatLog, now, msg)
        /\ sent' = broadcast([type |-> "chat", message |-> msg])
        /\ UNCHANGED <<world, surfaceMap, players, sockets, conns, chests, animals, now,
                       hostVars>>

(* ------------------------------------------------------------------ *)
(* The clock.                                                          *)
(* ------------------------------------------------------------------ *)
BootTime == 2 * DEFAULT_CD
MaxTime == BootTime + MaxClock

tock(d) ==
    /\ now + d <= MaxTime
    /\ now' = now + d
    /\ sent' = {}
    /\ UNCHANGED <<world, surfaceMap, players, sockets, conns, hostVars, chests, animals, chatLog>>

(* ------------------------------------------------------------------ *)
(* The running server after a boot without a save and two joins.       *)
(* ------------------------------------------------------------------ *)
\* The 951-column world has some 47 tree columns; the model world keeps one.
InitTreeCols == {1}

\* genAnimals with the draw x = 2: the Map key and the id are two randomUUID()
\* values.
genAnimals(surf) ==
    <<[key |-> "uuid-1", id |-> "boar-1", x |-> 2 * SUB,
       y |-> Max(1, surfaceAt(surf, 2 * SUB) - 1) * SUB, hp |-> 20, vx |-> 0, vy |-> 0]>>

\* The generated boar and a boar restored by loadWorld (keyed by its id).
InitAnimals ==
    genAnimals(genSurface(xmur3("moltwars")))
      \o <<[key |-> "boar-2", id |-> "boar-2", x |-> 3 * SUB,
            y |-> Max(1, genSurface(xmur3("moltwars"))[3] - 1) * SUB, hp |-> 5, vx |-> 0, vy |-> 0]>>

\* The NPC genNpcs put and the villages of genVillages.
InitNpcs == <<newNpc("npc-1", "Molty", [x |-> 1, depth |-> 0])>>
InitVillages == <<[x |-> 0, y |-> (WORLD_H * 25) \div 100]>>

\* The records of two players who joined right after the boot, in columns 0, 1.
JoinedPlayers ==
    [id \in PlayerIds |->
        spawnPlayer(id, NameOf(id), KeyOf(id), IF id = "p1" THEN 0 ELSE 1,
                    genTiles(xmur3("moltwars"), InitTreeCols),
                    genSurface(xmur3("moltwars")), BootTime)]

\* No file at SAVE_PATH. A file is [exists, parses, seed, players, worldFits,
\* keys, doc]: fs.existsSync; JSON.parse returns; data.seed (Null when absent);
\* data.players is "absent", an "array", or an "object" that `for ... of`
\* cannot iterate; data.world has WORLD_W * WORLD_H entries; the keys among
\* villages, chests, animals, npcs, chat the document has; and their values.
NoFile ==
    [exists |-> FALSE, parses |-> FALSE, seed |-> Null, players |-> "absent", worldFits |-> FALSE,
     keys |-> {},
     doc |-> [players |-> <<>>, world |-> <<>>, villages |-> <<>>, chests |-> <<>>,
              animals |-> <<>>, npcs |-> <<>>, chat |-> <<>>]]

\* The files a boot can find: none, one that does not parse, and documents of
\* an earlier run that hold its grid (or one of other dimensions), its boar
\* and, when players = "array", its players.
BootSaves ==
    {NoFile, [NoFile EXCEPT !.exists = TRUE]} \cup
    {   [exists |-> TRUE, parses |-> TRUE, seed |-> b.seed, players |-> b.players,
         worldFits |-> b.worldFits, keys |-> {"animals"},
         doc |-> [NoFile.doc EXCEPT
                    !.players = IF b.players = "array" THEN playersValues(JoinedPlayers) ELSE <<>>,
                    !.world = IF b.worldFits THEN genTiles(xmur3("moltwars"), InitTreeCols)
                              ELSE <<>>,
                    !.animals = <<[f \in DOMAIN InitAnimals[2] \ {"key"} |-> InitAnimals[2][f]]>>]] :
        b \in {[seed |-> "moltwars", players |-> "array", worldFits |-> TRUE],
               [seed |-> Null, players |-> "array", worldFits |-> FALSE],
               [seed |-> "alt", players |-> "absent", worldFits |-> FALSE],
               [seed |-> Null, players |-> "object", worldFits |-> FALSE]}}

RunningIn(w, ps, socks, as, ns) ==
    /\ world = w
    /\ surfaceMap = genSurface(xmur3("moltwars"))
    /\ players = ps
    /\ sockets = socks
    /\ conns = [c \in {socks[i].ws : i \in 1..Len(socks)} |->
                  [pid |-> (CHOOSE e \in {socks[i] : i \in 1..Len(socks)} : e.ws = c).pid,
                   readyState |-> "open"]]
    /\ chests = <<>>
    /\ animals = as
    /\ chatLog = <<>>
    /\ now = BootTime
    /\ call = NoCall
    /\ attackAt = [id \in PlayerIds |-> -1]
    /\ sent = {}
    /\ npcs = ns
    /\ villages = InitVillages
    /\ worldSockets = <<>>
    /\ seedInt = xmur3("moltwars")
    /\ rng = [kind |-> "mulberry32", a |-> xmur3("moltwars")]
    /\ issued = 0
    /\ disk = NoFile

RunningWith(ps) ==
    RunningIn(genTiles(xmur3("moltwars"), InitTreeCols), ps,
              <<[pid |-> "p1", ws |-> "c1"], [pid |-> "p2", ws |-> "c2"]>>,
              InitAnimals, InitNpcs)

\* The server after boot on the seeded world, two players joined and connected.
Init == RunningWith(JoinedPlayers)

\* Counters that grow without limit in the program are capped in the model.
allWithin(f, ks) == \A k \in ks : f[k].k # "num" \/ (f[k].n >= -MaxCount /\ f[k].n <= MaxCount)

Bounded ==
    /\ \A p \in DOMAIN players :
         /\ allWithin(players[p].inv, Items)
         /\ players[p].stats.kills <= MaxStat
         /\ players[p].stats.deaths <= MaxStat
         /\ players[p].stats.blocksMined <= MaxStat
         /\ players[p].stats.itemsCrafted <= MaxStat
    /\ \A k \in DOMAIN chests : allWithin(chests[k], Items)
    /\ \A i \in 1..Len(animals) : animals[i].hp >= -5
    /\ \A i \in 1..Len(npcs) :
         /\ allWithin(npcs[i].inv, Items)
         /\ npcs[i].stats.playtimeMs <= MaxPlaytime

\* The handler runs for a message on connection c, which authenticated as p.
Senders(P) == {pc \in P \X DOMAIN conns : canSend(pc[2], pc[1])}

\* What every step of the running server adds to its handler: the caps, and the
\* history variables it leaves alone.
Capped == Bounded' /\ UNCHANGED <<call, attackAt>>

(* ---- Spec: the economy intents, one disjunct per message type ---- *)
\* mine and build reach a tree, an ore cell, air, and cells off each edge, build
\* also the sky of row 0; a second mine message carries x = 0.5.
Next ==
    \/ /\ \E pc \in Senders({"p1"}),
             c \in {<<1, genHeight(1, xmur3("moltwars")) - 2>>, <<3, 10>>, <<WORLD_W, 3>>,
                    <<-1, 5>>, <<1, WORLD_H>>} :
             mine(pc[1], c[1] * SUB, c[2] * SUB)
       /\ Capped
    \/ /\ \E pc \in Senders({"p1"}) : mine(pc[1], SUB \div 2, 3 * SUB)
       /\ Capped
    \/ /\ \E pc \in Senders({"p1"}),
             c \in {<<1, genHeight(1, xmur3("moltwars")) - 2>>, <<3, 10>>, <<WORLD_W, 3>>,
                    <<-1, 5>>, <<1, WORLD_H>>, <<3, 0>>},
             t \in {TILE_ORE, TILE_TREE, TILE_GRASS} :
             build(pc[1], c[1], c[2], t)
       /\ Capped
    \/ /\ \E pc \in Senders({"p1"}), r \in RecipeNames : craft(pc[1], r)
       /\ Capped
    \/ /\ \E pc \in Senders({"p1"}) : eat(pc[1])
       /\ Capped
    \/ /\ \E pc \in Senders({"p1"}) : openChest(pc[1], 0, 0)
       /\ Capped
    \/ /\ \E pc \in Senders(PlayerIds), n \in {-1, 1} : putChest(pc[1], 0, 0, ITEM_WOOD, n)
       /\ Capped
    \/ /\ \E pc \in Senders(PlayerIds), n \in {-1, 1} : takeChest(pc[1], 0, 0, ITEM_WOOD, n)
       /\ Capped
    \/ /\ \E pc \in Senders({"p1"}), a \in {"boar-1", "boar-2"} : attackAnimal(pc[1], a)
       /\ Capped

Spec == Init /\ [][Next]_vars

(* ---- SpecCombat: attacks, the clock, equipment and a chest ---- *)
\* Late in a fight: both players are one unarmed hit from death, and p1 holds
\* one sword (an inventory restored from a save).
InitCombat ==
    RunningWith([id \in PlayerIds |->
                    [JoinedPlayers[id] EXCEPT
                        !.hp = 10,
                        !.inv[ITEM_SWORD] = IF id = "p1" THEN Num(1) ELSE Undef]])

\* attack (at p1, p2 and an unknown id), equip, eat, unequip, the clock (by one unit
\* and by the sword's cooldown), openChest and takeChest at p1's spawn cell.
NextCombat ==
    \/ /\ \E pc \in Senders({"p1"}), t \in PlayerIds \cup {"nobody"} :
             /\ attack(pc[1], t)
             /\ attackAt' = [attackAt EXCEPT ![pc[1]] = now]
       /\ Bounded'
       /\ UNCHANGED call
    \/ /\ \E pc \in Senders({"p1"}) : equip(pc[1], ITEM_SWORD)
       /\ Capped
    \/ /\ \E pc \in Senders({"p1"}) : eat(pc[1])
       /\ Capped
    \/ /\ \E pc \in Senders({"p1"}) : unequip(pc[1])
       /\ Capped
    \/ /\ \E d \in {1, WEAPON_DEFS[ITEM_SWORD].cooldown \div TIME_UNIT} : tock(d)
       /\ Capped
    \/ /\ \E pc \in Senders({"p1"}) : openChest(pc[1], 0, JoinedPlayers["p1"].y \div SUB)
       /\ Capped
    \/ /\ \E pc \in Senders({"p1"}) :
             takeChest(pc[1], 0, JoinedPlayers["p1"].y \div SUB, ITEM_SWORD, -1)
       /\ Capped

SpecCombat == InitCombat /\ [][NextCombat]_vars

\* The same steps after a boar hunt: p1, at health 90, holds two pieces of meat.
SpecEat ==
    /\ RunningWith([id \in PlayerIds |->
                       [JoinedPlayers[id] EXCEPT
                           !.hp = IF id = "p1" THEN 90 ELSE 10,
                           !.inv[ITEM_MEAT] = IF id = "p1" THEN Num(2) ELSE Undef]])
    /\ [][NextCombat]_vars

(* ------------------------------------------------------------------ *)
(* SpecTile: getTile and setTile called with coordinates on both sides *)
(* of every edge of the grid.                                          *)
(* ------------------------------------------------------------------ *)
NextTile ==
    \/ /\ \E x \in {-1, 0, WORLD_W - 1, WORLD_W}, y \in {-1, 0, WORLD_H - 1, WORLD_H} :
             call' = [op |-> "getTile", x |-> x, y |-> y, t |-> TILE_AIR,
                      read |-> getTile(x, y), before |-> world]
       /\ UNCHANGED <<world, surfaceMap, players, sockets, conns, hostVars, chests, animals,
                      chatLog, now, attackAt, sent>>
    \/ /\ \E x \in {-1, 0, WORLD_W - 1, WORLD_W}, y \in {-1, 0, WORLD_H - 1, WORLD_H},
             t \in {TILE_AIR, TILE_STONE} :
             /\ world' = setTileOf(world, x, y, t)
             /\ call' = [op |-> "setTile", x |-> x, y |-> y, t |-> t,
                         read |-> TILE_AIR, before |-> world]
       /\ UNCHANGED <<surfaceMap, players, sockets, conns, hostVars, chests, animals,
                      chatLog, now, attackAt, sent>>

SpecTile == Init /\ [][NextTile]_vars

(* ------------------------------------------------------------------ *)
(* SpecNet: the tick, the moves and what the server sends.             *)
(* ------------------------------------------------------------------ *)
\* The values the rand() calls of a tick return: a quiet tick and a busy one.
TickDraws ==
    {[x |-> 0, vx |-> 0, coin |-> 1, wander |-> FALSE, animalSpawn |-> FALSE,
      npcSpawn |-> FALSE, depth |-> 0, name |-> "Claw", span |-> 0, turn |-> FALSE,
      mineFwd |-> FALSE, mine |-> FALSE],
     [x |-> WORLD_W - 1, vx |-> 1, coin |-> -1, wander |-> TRUE, animalSpawn |-> TRUE,
      npcSpawn |-> TRUE, depth |-> 0, name |-> "Claw", span |-> 0, turn |-> TRUE,
      mineFwd |-> TRUE, mine |-> TRUE]}

\* The tick, a move of p2, a chat line of p1, the two chatter timers, a world
\* socket connecting and setting its view, and the world-view broadcast.
NextNet ==
    \/ /\ \E r \in TickDraws : tick(r)
       /\ Capped
    \/ /\ \E pc \in Senders({"p2"}) : \E d \in {<<SUB, 0>>, <<0, -SUB>>, <<SUB \div 2, 0>>} :
             move(pc[1], d[1], d[2])
       /\ Capped
    \/ /\ \E pc \in Senders({"p1"}) : chat(pc[1], "hi")
       /\ Capped /\ Len(chatLog') <= NetChatWindow
    \/ /\ \E i \in 1..Len(npcs) : npcChatter(i, 1)
       /\ Capped /\ Len(chatLog') <= NetChatWindow
    \/ /\ \E roll \in 0..2 : systemChatter(roll, 1, Len(npcs))
       /\ Capped /\ Len(chatLog') <= NetChatWindow
    \/ /\ worldConnect("w1")
       /\ Capped
    \/ /\ \E v \in {<<0, 0, 2, 2>>, <<-1, WORLD_H - 2, WORLD_W, 5>>} :
             view("w1", v[1], v[2], v[3], v[4])
       /\ Capped
    \/ /\ worldBroadcast
       /\ Capped

SpecNet == Init /\ [][NextNet]_vars

\* The same steps after a boot from a save of a world of other dimensions: the
\* world is generated, and the saved animals and NPCs come on top of the
\* generated ones (three boars and two NPCs more than in Init), or come not.
SpecCrowd ==
    /\ \E as \in {InitAnimals,
                   InitAnimals \o [i \in 1..3 |->
                                     [InitAnimals[2] EXCEPT !.key = <<"boar-3", "boar-4", "boar-5">>[i],
                                                            !.id = <<"boar-3", "boar-4", "boar-5">>[i],
                                                            !.hp = 20]]},
          ns \in {InitNpcs,
                   InitNpcs \o <<newNpc("npc-2", "Claw", [x |-> 2, depth |-> 0]),
                                 newNpc("npc-3", "Rune", [x |-> 3, depth |-> 0])>>} :
          RunningIn(genTiles(xmur3("moltwars"), InitTreeCols), JoinedPlayers,
                    <<[pid |-> "p1", ws |-> "c1"], [pid |-> "p2", ws |-> "c2"]>>, as, ns)
    /\ [][NextNet]_vars

(* ------------------------------------------------------------------ *)
(* SpecConn: game connections opening and closing around the tick.     *)
(* ------------------------------------------------------------------ *)
\* wss 'connection' for a new ws c with ?playerId=&apiKey= : a failed
\* authentication closes c before any handler is attached; otherwise
\* sockets.set(playerId, ws) and the message and close handlers are attached.
connect(c, playerId, apiKey) ==
    /\ c \notin DOMAIN conns
    /\ IF playerId \notin DOMAIN players \/ players[playerId].apiKey # apiKey
       THEN /\ conns' = [k \in DOMAIN conns \cup {c} |->
                           IF k = c THEN [pid |-> Null, readyState |-> "closed"] ELSE conns[k]]
            /\ sockets' = sockets
       ELSE /\ conns' = [k \in DOMAIN conns \cup {c} |->
                           IF k = c THEN [pid |-> playerId, readyState |-> "open"] ELSE conns[k]]
            /\ sockets' = IF \E i \in 1..Len(sockets) : sockets[i].pid = playerId
                          THEN [i \in 1..Len(sockets) |->
                                  IF sockets[i].pid = playerId
                                  THEN [pid |-> playerId, ws |-> c] ELSE sockets[i]]
                          ELSE Append(sockets, [pid |-> playerId, ws |-> c])
    /\ sent' = {}
    /\ UNCHANGED <<world, surfaceMap, players, hostVars, chests, animals, chatLog, now>>

\* ws 'close' on a connection that authenticated: sockets.delete(playerId),
\* then the leave line is logged and broadcast to what is still registered.
close(c) ==
    LET leaveMsg == <<players[conns[c].pid].name, " left the world">>
    IN  /\ c \in DOMAIN conns /\ conns[c].pid # Null /\ conns[c].readyState # "closed"
        /\ conns' = [conns EXCEPT ![c].readyState = "closed"]
        /\ sockets' = SelectSeq(sockets, LAMBDA e : e.pid # conns[c].pid)
        /\ chatLog' = addChatTo(chatLog, now, leaveMsg)
        /\ sent' = {[to |-> e.ws, payload |-> [type |-> "chat", message |-> leaveMsg]] :
                       e \in {sockets'[i] : i \in {k \in 1..Len(sockets') :
                                                       conns'[sockets'[k].ws].readyState = "open"}}}
        /\ UNCHANGED <<world, surfaceMap, players, hostVars, chests, animals, now>>

\* ws.readyState leaves OPEN (a closing handshake, a dead peer) before the
\* 'close' event is delivered.
closing(c) ==
    /\ c \in DOMAIN conns /\ conns[c].readyState = "open"
    /\ conns' = [conns EXCEPT ![c].readyState = "closing"]
    /\ sent' = {}
    /\ UNCHANGED <<world, surfaceMap, players, sockets, hostVars, chests, animals, chatLog, now>>

\* A connection c3 opens for p1 or with a wrong key, and c4 for p2; a
\* connection closes, c1 or c2 stalls; the tick; the clock passes the inactivity
\* timeout once, while no registered connection is open (the ticks of that
\* time touch no player).
NextConn ==
    \/ /\ \E ca \in {<<"c3", "p1", KeyOf("p1")>>, <<"c3", "p1", "bad">>,
                      <<"c4", "p2", KeyOf("p2")>>} :
             connect(ca[1], ca[2], ca[3])
       /\ Capped
    \/ /\ \E c \in DOMAIN conns : close(c)
       /\ Capped /\ Len(chatLog') <= NetChatWindow
    \/ /\ \E c \in {"c1", "c2"} : closing(c)
       /\ Capped
    \/ /\ \E r \in {d \in TickDraws : d.wander} :
             tick([r EXCEPT !.animalSpawn = FALSE, !.npcSpawn = FALSE,
                            !.mine = FALSE, !.mineFwd = FALSE])
       /\ Capped
    \/ /\ now = BootTime
       /\ \A i \in 1..Len(sockets) : conns[sockets[i].ws].readyState # "open"
       /\ now' = now + INACTIVE_TIMEOUT_MS
       /\ sent' = {}
       /\ UNCHANGED <<world, surfaceMap, players, sockets, conns, hostVars, chests, animals,
                      chatLog, call, attackAt>>

SpecConn == Init /\ [][NextConn]_vars

(* ------------------------------------------------------------------ *)
(* SpecSettle: the tick interval alone, no intent arriving.            *)
(* ------------------------------------------------------------------ *)
\* One firing of the setInterval callback in which no NPC mines and nothing
\* spawns. The NPCs' playtime (three units a tick with two viewers) is the
\* clock of the run.
NextSettle ==
    /\ \E r \in TickDraws :
          tick([r EXCEPT !.animalSpawn = FALSE, !.npcSpawn = FALSE,
                         !.mine = FALSE, !.mineFwd = FALSE])
    /\ \A i \in 1..Len(npcs') : npcs'[i].stats.playtimeMs <= SettleTime
    /\ UNCHANGED <<call, attackAt>>

\* The world is the generated one, or that world after two mining sprees (the
\* cell under the spawn row of column 0 is gone, and column 2 has a shaft from
\* the grass down to row 4). p1 stands anywhere between the top of the sky and
\* the row under the spawn row of column 0 or 2, on a row or half a tile below
\* it; p2 is where it spawned in column 3. The timer keeps firing.
SpecSettle ==
    /\ \E w \in {genTiles(xmur3("moltwars"), InitTreeCols),
                  [i \in 0..(WORLD_W * WORLD_H - 1) |->
                      IF i \in {idx(0, genSurface(xmur3("moltwars"))[0] + 4),
                                idx(2, 1), idx(2, 2), idx(2, 3), idx(2, 4)}
                      THEN TILE_AIR
                      ELSE genTiles(xmur3("moltwars"), InitTreeCols)[i]]},
          x \in {0, 2}, y \in 0..(genSurface(xmur3("moltwars"))[0] + 4), half \in {0, SUB \div 2} :
          RunningIn(w,
                    [id \in PlayerIds |->
                        IF id = "p1"
                        THEN [JoinedPlayers[id] EXCEPT !.x = x * SUB, !.y = y * SUB + half]
                        ELSE [JoinedPlayers[id] EXCEPT !.x = 3 * SUB]],
                    <<[pid |-> "p1", ws |-> "c1"], [pid |-> "p2", ws |-> "c2"]>>,
                    InitAnimals, InitNpcs)
    /\ [][NextSettle]_vars
    /\ WF_vars(NextSettle)

(* ------------------------------------------------------------------ *)
(* SpecGoal: the tick over the lifetime of several NPC goals.          *)
(* ------------------------------------------------------------------ *)
\* The tick, with and without the mining draws; before the first one the
\* players leave (an NPC nobody views ages by one tick per tick); the clock moves
\* to the instant an NPC's goal runs out (Date.now() equal to goalUntil), or
\* one unit past it.
NextGoal ==
    \/ /\ \E r \in TickDraws :
             tick([r EXCEPT !.animalSpawn = FALSE, !.npcSpawn = FALSE, !.wander = FALSE])
       /\ Capped
    \/ /\ \E c \in DOMAIN conns : close(c)
       /\ \A i \in 1..Len(npcs) : npcs[i].goal = Null
       /\ Capped
    \/ /\ \E i \in 1..Len(npcs) : now' \in {npcs[i].goalUntil, npcs[i].goalUntil + 1}
       /\ now' > now
       /\ now' <= BootTime + MaxGoals * (20000 \div TIME_UNIT + 1)
       /\ sent' = {}
       /\ UNCHANGED <<world, surfaceMap, players, sockets, conns, hostVars, chests, animals,
                      chatLog, call, attackAt>>

SpecGoal == Init /\ [][NextGoal]_vars

(* ------------------------------------------------------------------ *)
(* SpecChat: what writes the chat history, late in a fight.            *)
(* ------------------------------------------------------------------ *)
\* A chat line of p1, a connection closing, an attack of p1, an NPC's chatter
\* and the three kinds of system chatter.
NextChat ==
    \/ /\ \E pc \in Senders({"p1"}) : chat(pc[1], "hi")
       /\ Capped
    \/ /\ \E c \in DOMAIN conns : close(c)
       /\ Capped
    \/ /\ \E pc \in Senders({"p1"}), t \in PlayerIds : attack(pc[1], t)
       /\ Capped
    \/ /\ \E i \in 1..Len(npcs) : npcChatter(i, 1)
       /\ Capped
    \/ /\ \E roll \in 0..2 : systemChatter(roll, 1, Len(npcs))
       /\ Capped

SpecChat == InitCombat /\ [][NextChat]_vars

(* ------------------------------------------------------------------ *)
(* SpecBoot: the process from module load through loadWorld, then the  *)
(* HTTP endpoints (POST /join, GET /state, /world, /leaderboard).      *)
(* ------------------------------------------------------------------ *)
\* The player capacity (5 in the source), scaled to the two players of the model.
MAX_PLAYERS == 2

\* (mutant) names are compared as they are written
toLowerCase_asWritten(s) == s

\* String.prototype.toLowerCase on the names that are sent.
toLowerCase(s) == IF s = "Ada" THEN "ada" ELSE IF s = "Bob" THEN "bob" ELSE s

\* What the module's top-level statements leave before loadWorld() runs.
InitBoot ==
    /\ world = [i \in 0..(WORLD_W * WORLD_H - 1) |-> 0]
    /\ surfaceMap = [x \in 0..(WORLD_W - 1) |-> 0]
    /\ players = <<>>
    /\ sockets = <<>>
    /\ conns = <<>>
    /\ chests = <<>>
    /\ animals = <<>>
    /\ chatLog = <<>>
    /\ now = BootTime
    /\ call = NoCall
    /\ attackAt = [id \in PlayerIds |-> -1]
    /\ sent = {}
    /\ npcs = <<>>
    /\ villages = <<>>
    /\ worldSockets = <<>>
    /\ seedInt = 0
    /\ rng = [kind |-> "Math.random", a |-> 0]
    /\ issued = 0
    /\ disk \in BootSaves

\* (mutant) no catch block: a read or parse that throws leaves memory as the
\* module load set it up
loadWorld_uncaught(save, force, env, draws) ==
    /\ world' = [i \in 0..(WORLD_W * WORLD_H - 1) |-> 0]
    /\ surfaceMap' = [x \in 0..(WORLD_W - 1) |-> 0]
    /\ players' = <<>> /\ chests' = <<>> /\ animals' = <<>> /\ npcs' = <<>>
    /\ villages' = <<>> /\ chatLog' = <<>>
    /\ sockets' = <<>> /\ conns' = <<>> /\ worldSockets' = <<>> /\ sent' = {}
    /\ seedInt' = 0
    /\ rng' = [kind |-> "Math.random", a |-> 0]
    /\ call' = [op |-> "loadWorld", seed |-> env, generated |-> FALSE]
    /\ UNCHANGED <<now, attackAt, issued, disk>>

\* loadWorld() with WORLD_SEED = env and FORCE_REGEN = force, in a process
\* whose module-level state is still as declared (empty Maps, zeroed arrays,
\* seedInt 0, rand = Math.random); draws are the columns where Math.random()
\* returns less than 0.05 in the tree loop when rand is still Math.random.
\* The catch block calls genWorld() with seedInt and rand as the try block
\* left them.
loadWorld(save, force, env, draws) ==
    LET read == ~force /\ save.exists
        parsed == read /\ save.parses
        threw == read /\ (~save.parses \/ save.players = "object")
        loaded == parsed /\ ~threw
        seed == IF parsed /\ save.seed # Null THEN save.seed ELSE env
        si == IF ~read \/ parsed THEN xmur3(seed) ELSE 0
        restored == loaded /\ save.worldFits
        trees == IF ~read \/ parsed THEN seededTreeCols(si, 0) ELSE draws
        has(k) == loaded /\ k \in save.keys
    IN  /\ seedInt' = si
        /\ rng' = IF ~read \/ parsed THEN [kind |-> "mulberry32", a |-> si]
                  ELSE [kind |-> "Math.random", a |-> 0]
        /\ world' = IF restored THEN save.doc.world ELSE genTiles(si, trees)
        /\ surfaceMap' = IF restored THEN [x \in 0..(WORLD_W - 1) |-> 0] ELSE genSurface(si)
        /\ players' = IF parsed /\ save.players = "array"
                      THEN [id \in {save.doc.players[i].id : i \in 1..Len(save.doc.players)} |->
                              save.doc.players[CHOOSE i \in 1..Len(save.doc.players) :
                                                  save.doc.players[i].id = id]]
                      ELSE <<>>
        /\ villages' = IF has("villages") THEN save.doc.villages
                       ELSE IF restored THEN <<>> ELSE InitVillages
        /\ chests' = IF has("chests") THEN save.doc.chests ELSE <<>>
        /\ animals' = (IF restored THEN <<>> ELSE genAnimals(genSurface(si)))
                         \o (IF has("animals")
                             THEN [i \in 1..Len(save.doc.animals) |->
                                     [f \in DOMAIN save.doc.animals[i] \cup {"key"} |->
                                        IF f = "key" THEN save.doc.animals[i].id
                                        ELSE save.doc.animals[i][f]]]
                             ELSE <<>>)
        /\ npcs' = (IF restored THEN <<>> ELSE InitNpcs)
                      \o (IF has("npcs") THEN save.doc.npcs ELSE <<>>)
        /\ chatLog' = IF has("chat") THEN save.doc.chat ELSE <<>>
        /\ call' = [op |-> "loadWorld", seed |-> seed, generated |-> ~restored]
        /\ sockets' = <<>>
        /\ conns' = <<>>
        /\ worldSockets' = <<>>
        /\ sent' = {}
        /\ UNCHANGED <<now, attackAt, issued, disk>>

\* An HTTP response; as is the player the request acted for (Null: nobody).
respond(as, payload) == [to |-> "http", as |-> as, payload |-> payload]

\* POST /join with body.name = name ("" when absent); spawnX is
\* Math.floor(rand() * WORLD_W), and the two randomUUID() values are the next
\* unused player id and its key.
join(name, spawnX) ==
    LET id == IF "p1" \notin DOMAIN players THEN "p1"
              ELSE IF "p2" \notin DOMAIN players THEN "p2" ELSE "p3"
        player == spawnPlayer(id, name, KeyOf(id), spawnX, world, surfaceMap, now)
        joinMsg == <<name, " joined the world">>
        activeCount == Len(SelectSeq(playersValues(players), LAMBDA p : isActivePlayer(p, now)))
    IN  IF name = ""
        THEN /\ sent' = {respond(Null, [type |-> "/join", status |-> 400, ok |-> FALSE,
                                        error |-> "name required"])}
             /\ UNCHANGED <<players, chatLog>>
        ELSE IF activeCount >= MAX_PLAYERS
        THEN /\ sent' = {respond(Null, [type |-> "/join", status |-> 429, ok |-> FALSE,
                                        error |-> "server full"])}
             /\ UNCHANGED <<players, chatLog>>
        ELSE IF \E p \in DOMAIN players : toLowerCase(players[p].name) = toLowerCase(name)
        THEN /\ sent' = {respond(Null, [type |-> "/join", status |-> 409, ok |-> FALSE,
                                        error |-> "name taken"])}
             /\ UNCHANGED <<players, chatLog>>
        ELSE /\ (PlayerIds \cup {"p3"}) \ DOMAIN players # {}
             /\ players' = [p \in DOMAIN players \cup {id} |->
                              IF p = id THEN player ELSE players[p]]
             /\ chatLog' = addChatTo(chatLog, now, joinMsg)
             /\ sent' = broadcast([type |-> "chat", message |-> joinMsg])
                          \cup {respond(id, [type |-> "/join", status |-> 200, ok |-> TRUE,
                                             playerId |-> player.id, apiKey |-> player.apiKey,
                                             spawn |-> player.spawn])}

\* GET /state?playerId=..&apiKey=..
getState(playerId, apiKey) ==
    sent' = IF playerId \notin DOMAIN players \/ players[playerId].apiKey # apiKey
            THEN {respond(Null, [type |-> "/state", status |-> 401, ok |-> FALSE,
                                 error |-> "unauthorized"])}
            ELSE {respond(playerId, [type |-> "/state", status |-> 200, ok |-> TRUE,
                                     player |-> players[playerId],
                                     players |-> playersValues(players)])}

getWorldSnapshot ==
    [type |-> "/world", status |-> 200, ok |-> TRUE, worldWidth |-> WORLD_W,
     worldHeight |-> WORLD_H, worldSize |-> WORLD_W, tiles |-> world,
     players |-> activePlayers, animals |-> animals, npcs |-> npcs,
     villages |-> villages, chat |-> chatLog]

\* list.sort((a, b) => b.kills - a.kills): stable, most kills first.
RECURSIVE sortByKills(_)
sortByKills(list) ==
    IF list = <<>> THEN <<>>
    ELSE LET top == CHOOSE i \in 1..Len(list) :
                       /\ \A j \in 1..Len(list) : list[j].kills <= list[i].kills
                       /\ \A j \in 1..(i - 1) : list[j].kills < list[i].kills
         IN  <<list[top]>> \o sortByKills(SubSeq(list, 1, top - 1) \o SubSeq(list, top + 1, Len(list)))

\* GET /leaderboard
leaderboard ==
    LET ps == playersValues(players)
    IN  [type |-> "/leaderboard", status |-> 200, ok |-> TRUE,
         players |-> sortByKills([i \in 1..Len(ps) |->
            [id |-> ps[i].id, name |-> ps[i].name, kills |-> ps[i].stats.kills,
             deaths |-> ps[i].stats.deaths,
             kd |-> IF ps[i].stats.deaths # 0 THEN <<ps[i].stats.kills, ps[i].stats.deaths>>
                    ELSE <<ps[i].stats.kills, 1>>,
             blocksMined |-> ps[i].stats.blocksMined,
             itemsCrafted |-> ps[i].stats.itemsCrafted,
             playtimeMs |-> ps[i].stats.playtimeMs]])]

\* loadWorld() is the first statement the process runs, and runs once; the
\* server answers requests after it returned.
NextBoot ==
    \/ /\ call.op = "none"
       /\ \E force \in BOOLEAN, draws \in {{}, {0}, {1, WORLD_W - 1}} :
             loadWorld(disk, force, "moltwars", draws)
    \/ /\ call.op = "loadWorld"
       /\ \E name \in {"", "Ada", "ada", "Bob", "Cy"}, spawnX \in 0..(WORLD_W - 1) : join(name, spawnX)
       /\ UNCHANGED <<world, surfaceMap, sockets, conns, chests, animals, now, call, attackAt,
                      hostVars>>
    \/ /\ call.op = "loadWorld"
       /\ \E playerId \in PlayerIds, apiKey \in {KeyOf("p1"), KeyOf("p2")} :
             getState(playerId, apiKey)
       /\ UNCHANGED <<world, surfaceMap, players, sockets, conns, chests, animals, chatLog, now,
                      call, attackAt, hostVars>>
    \/ /\ call.op = "loadWorld"
       /\ sent' = {respond(Null, getWorldSnapshot)}
       /\ UNCHANGED <<world, surfaceMap, players, sockets, conns, chests, animals, chatLog, now,
                      call, attackAt, hostVars>>
    \/ /\ call.op = "loadWorld"
       /\ sent' = {respond(Null, leaderboard)}
       /\ UNCHANGED <<world, surfaceMap, players, sockets, conns, chests, animals, chatLog, now,
                      call, attackAt, hostVars>>

SpecBoot == InitBoot /\ [][NextBoot]_vars

\* Life on the grid: Ada (one hit from death) is alone and connected; Bob
\* joins at the right edge and connects, walks and flies; the timer ticks; Ada
\* hits herself.
SpecRoam ==
    /\ RunningIn(genTiles(xmur3("moltwars"), InitTreeCols),
                 [id \in {"p1"} |-> [JoinedPlayers[id] EXCEPT !.hp = 10]],
                 <<[pid |-> "p1", ws |-> "c1"]>>, InitAnimals, InitNpcs)
    /\ [][\/ /\ join("Bob", WORLD_W - 1)
             /\ UNCHANGED <<world, surfaceMap, sockets, conns, chests, animals, now, hostVars>>
             /\ Capped
          \/ /\ connect("c4", "p2", KeyOf("p2"))
             /\ Capped
          \/ /\ \E pc \in Senders(PlayerIds) :
                   \E d \in {<<-SUB, 0>>, <<SUB, 0>>, <<0, -SUB>>} :
                      move(pc[1], d[1], d[2])
             /\ Capped
          \/ /\ \E r \in TickDraws : tick(r)
             /\ Capped
          \/ /\ \E pc \in Senders({"p1"}) : attack(pc[1], "p1")
             /\ Capped]_vars

\* The connection steps with session creation: a newcomer asks to join.
SpecCapacity ==
    /\ Init
    /\ [][\/ NextConn
          \/ /\ join("Cy", 3)
             /\ UNCHANGED <<world, surfaceMap, sockets, conns, chests, animals, now, hostVars>>
             /\ Capped]_vars

(* ------------------------------------------------------------------ *)
(* SpecSave: the autosave timer, the signals, and the next boot.       *)
(* ------------------------------------------------------------------ *)
\* What saveWorld() leaves at SAVE_PATH. outcome "ok": the snapshot, as
\* JSON.stringify renders it (NaN becomes null, a Map's values lose their
\* keys); "kept": mkdirSync or the open threw and the file is as it was;
\* "torn": the write threw after the file was truncated. The catch block
\* logs, so nothing else changes. worldSeed is what setSeed last stored.
saveWorld(outcome) ==
    LET json(inv) == [i \in Items |-> IF inv[i].k = "nan" THEN [k |-> "null", n |-> 0] ELSE inv[i]]
        ps == playersValues(players)
    IN  IF outcome = "kept" THEN disk
        ELSE IF outcome = "torn" THEN [NoFile EXCEPT !.exists = TRUE]
        ELSE [exists |-> TRUE, parses |-> TRUE,
              seed |-> IF call.op = "none" THEN "moltwars" ELSE call.seed,
              players |-> "array", worldFits |-> TRUE,
              keys |-> {"villages", "chests", "animals", "npcs", "chat"},
              doc |-> [players |-> [i \in 1..Len(ps) |-> [ps[i] EXCEPT !.inv = json(@)]],
                       world |-> world,
                       villages |-> villages,
                       chests |-> [k \in DOMAIN chests |-> json(chests[k])],
                       animals |-> [i \in 1..Len(animals) |->
                                      [f \in DOMAIN animals[i] \ {"key"} |-> animals[i][f]]],
                       npcs |-> [i \in 1..Len(npcs) |-> [npcs[i] EXCEPT !.inv = json(@)]],
                       chat |-> chatLog]]

\* While the process runs: an attack, a mine, the tick, and the autosave
\* timer. A signal ends the process: SIGINT runs its listener (saveWorld, then
\* process.exit), SIGTERM has no listener. After the exit the next process
\* boots from the file.
NextSave ==
    \/ /\ call.op # "exit"
       /\ \E pc \in Senders({"p1"}) : attack(pc[1], "p2")
       /\ Capped
    \/ /\ call.op # "exit"
       /\ \E pc \in Senders({"p1"}) : mine(pc[1], SUB, (genHeight(1, xmur3("moltwars")) - 2) * SUB)
       /\ Capped
    \/ /\ call.op # "exit"
       /\ \E r \in {d \in TickDraws : d.wander} :
             tick([r EXCEPT !.animalSpawn = FALSE, !.npcSpawn = FALSE,
                            !.mine = FALSE, !.mineFwd = FALSE])
       /\ Capped
    \/ /\ call.op # "exit"
       /\ \E outcome \in {"ok", "kept", "torn"} : disk' = saveWorld(outcome)
       /\ sent' = {}
       /\ UNCHANGED <<world, surfaceMap, players, sockets, conns, chests, animals, chatLog, now,
                      call, attackAt, npcs, villages, worldSockets, seedInt, rng, issued>>
    \/ /\ call.op # "exit"
       /\ \E sig \in {"SIGINT", "SIGTERM"}, outcome \in {"ok", "kept", "torn"} :
             /\ disk' = IF sig = "SIGINT" THEN saveWorld(outcome) ELSE disk
             /\ call' = [op |-> "exit", signal |-> sig, saved |-> (sig = "SIGINT")]
       /\ sent' = {}
       /\ UNCHANGED <<world, surfaceMap, players, sockets, conns, chests, animals, chatLog, now,
                      attackAt, npcs, villages, worldSockets, seedInt, rng, issued>>
    \/ /\ call.op = "exit"
       /\ \E draws \in {{}, {1, WORLD_W - 1}} : loadWorld(disk, FALSE, "moltwars", draws)

SpecSave == InitCombat /\ [][NextSave]_vars

(* ------------------------------------------------------------------ *)
(* Claims.                                                             *)
(* ------------------------------------------------------------------ *)

\* C1: after any sequence of mine, build, craft, eat, putChest and takeChest
\* intents, every item count in every player's inventory is >= 0.
C1_InventoryNonNegative ==
    \A p \in DOMAIN players : \A i \in Items :
        players[p].inv[i].k = "num" => players[p].inv[i].n >= 0

\* The actor holds every input quantity of recipe r.
holdsInputs(inv, r) == \A k \in DOMAIN r.in : inv[k].k = "num" /\ inv[k].n >= r.in[k]

\* C2: a craft is all-or-nothing. With every input held, each input falls by
\* its quantity, each output rises by its quantity, nothing else in the
\* inventory moves and itemsCrafted rises by one; with an input short or the
\* recipe unknown, the actor's inventory and stats are unchanged.
C2_CraftAllOrNothing ==
    [][\A p \in PlayerIds : \A r \in RecipeNames :
         craft(p, r) =>
            IF r \in DOMAIN RECIPES /\ holdsInputs(players[p].inv, RECIPES[r])
            THEN /\ \A k \in DOMAIN RECIPES[r].in :
                       players'[p].inv[k] = Num(players[p].inv[k].n - RECIPES[r].in[k])
                 /\ \A k \in DOMAIN RECIPES[r].out :
                       players'[p].inv[k] = Num(OrZero(players[p].inv[k]) + RECIPES[r].out[k])
                 /\ \A k \in Items \ (DOMAIN RECIPES[r].in \cup DOMAIN RECIPES[r].out) :
                       players'[p].inv[k] = players[p].inv[k]
                 /\ players'[p].stats =
                       [players[p].stats EXCEPT !.itemsCrafted = @ + 1]
            ELSE /\ players'[p].inv = players[p].inv
                 /\ players'[p].stats = players[p].stats]_vars

\* C2 witness: a craft of the ration recipe went through (wood and ore used up,
\* one ration made, one item crafted).
C2_Witness ==
    /\ players["p1"].stats.itemsCrafted = 1
    /\ players["p1"].inv["ration"] = Num(1)
    /\ players["p1"].inv[ITEM_WOOD] = Num(0)
    /\ players["p1"].inv[ITEM_ORE] = Num(0)

\* The count of an inventory slot as a number (an absent slot counts 0).
held(v) == IF v.k = "num" THEN v.n ELSE 0

\* C3: when a player attack brings the target's health to zero, right after it
\* the chest at the target's pre-death coordinate holds, for every item kind,
\* its previous content plus the count the target held, and the target's
\* inventory is empty.
C3_DeathDropsInventory ==
    [][\A p \in PlayerIds : \A t \in PlayerIds :
         (attack(p, t) /\ players'[t].stats.deaths = players[t].stats.deaths + 1) =>
            LET key == chestKey(players[t].x, players[t].y)
            IN  /\ key \in DOMAIN chests'
                /\ \A i \in Items :
                      held(chests'[key][i]) = held(chestOrEmpty(key)[i]) + held(players[t].inv[i])
                /\ players'[t].inv = EmptyInv]_vars

\* The cooldown the claim names: that of the equipped weapon, 800 ms without one.
claimCd(active) == IF active = ITEM_SWORD THEN 700 \div TIME_UNIT ELSE 800 \div TIME_UNIT

\* No player's health, stats, inventory or position changes in the step.
unaffected ==
    \A q \in DOMAIN players :
        /\ players'[q].hp = players[q].hp
        /\ players'[q].stats = players[q].stats
        /\ players'[q].inv = players[q].inv
        /\ players'[q].x = players[q].x
        /\ players'[q].y = players[q].y

\* C4 as stated: an attack message that arrives less than the cooldown after the
\* actor's previous attack message changes no player's health, stats,
\* inventory or position.
C4_SecondAttackWithinCooldownIgnored ==
    [][\A p \in PlayerIds : \A t \in PlayerIds \cup {"nobody"} :
         (/\ attack(p, t)
          /\ attackAt[p] >= 0 /\ attackAt[p] < now
          /\ now - attackAt[p] < claimCd(players[p].active)) => unaffected]_vars

\* C4 amended: an attack message that arrives less than the cooldown after the
\* actor's previous attack message that passed the cooldown check changes no
\* player's health, stats, inventory or position.
C4_AttackWithinCooldownOfAppliedIgnored ==
    [][\A p \in PlayerIds : \A t \in PlayerIds \cup {"nobody"} :
         (/\ attack(p, t)
          /\ players[p].lastAttack > 0 /\ players[p].lastAttack < now
          /\ now - players[p].lastAttack < claimCd(players[p].active)) => unaffected]_vars

\* C4 witness: an attack message of p1 has just arrived within the cooldown of
\* its earlier applied attack (which killed p2) and was dropped.
C4_Witness ==
    /\ attackAt["p1"] = now
    /\ players["p1"].lastAttack > 0 /\ players["p1"].lastAttack < now
    /\ now - players["p1"].lastAttack < claimCd(players["p1"].active)
    /\ players["p1"].stats.kills = 1
    /\ players["p2"].hp = 100

\* The coordinates that are not a cell of the grid.
outside(x, y) == ~(x \in 0..(WORLD_W - 1) /\ y \in 0..(WORLD_H - 1))

\* C8: for every coordinate outside [0,WORLD_W) x [0,WORLD_H), getTile
\* returns the non-solid default kind (AIR) and setTile leaves every cell
\* of the grid as it was.  (Neither function has a throwing statement: a
\* read or write of a typed array off its ends is undefined or ignored.)
C8_OutOfBoundsTileAccess ==
    (call.op # "none" /\ outside(call.x, call.y)) =>
        /\ call.op = "getTile" => (call.read = TILE_AIR /\ ~isSolid(call.read))
        /\ call.op = "setTile" => world = call.before

\* An in-bounds write took effect, then a write past the right edge was made.
C8_Witness ==
    /\ call.op = "setTile" /\ call.x = WORLD_W /\ call.y = 0 /\ call.t = TILE_STONE
    /\ world[idx(WORLD_W - 1, WORLD_H - 1)] = TILE_AIR
    /\ world[idx(0, 0)] = TILE_STONE

\* The entries of a payload's nearby lists, and the keys a payload carries.
listed(pl) ==
    {pl.players[i] : i \in 1..Len(pl.players)}
        \cup {pl.animals[i] : i \in 1..Len(pl.animals)}
        \cup {pl.npcs[i] : i \in 1..Len(pl.npcs)}

tickPayloads == {m.payload : m \in {s \in sent : s.payload.type = "tick"}}

\* C5: in every tick payload sent to a player P, every entry of the players,
\* animals and npcs lists is at most VIEW_RADIUS tiles from P on each axis,
\* measured on the positions the payload itself carries.
C5_TickPayloadCulled ==
    \A pl \in tickPayloads : \A e \in listed(pl) :
        /\ e.x - pl.player.x <= VIEW_RADIUS * SUB /\ pl.player.x - e.x <= VIEW_RADIUS * SUB
        /\ e.y - pl.player.y <= VIEW_RADIUS * SUB /\ pl.player.y - e.y <= VIEW_RADIUS * SUB

\* C5 witness: a tick payload to p1 lists another player, an NPC and one animal,
\* while a second animal of the world, too far to the right, is left out.
C5_Witness ==
    \E pl \in tickPayloads :
        /\ pl.player.id = "p1"
        /\ \E i \in 1..Len(pl.players) : pl.players[i].id = "p2"
        /\ Len(pl.npcs) >= 1
        /\ Len(pl.animals) >= 1
        /\ \E i \in 1..Len(animals) :
              /\ \A j \in 1..Len(pl.animals) : pl.animals[j].id # animals[i].id
              /\ animals[i].x - pl.player.x > VIEW_RADIUS * SUB

\* The secret tokens of the players of the world.
tokens == {players[id].apiKey : id \in DOMAIN players}

\* A payload of a real-time channel discloses a token: as a field of a player
\* entry, or as text of a chat line.
discloses(pl) ==
    \/ /\ pl.type \in {"tick", "world"}
       /\ \E i \in 1..Len(pl.players) : "apiKey" \in DOMAIN pl.players[i]
    \/ /\ pl.type = "tick"
       /\ "apiKey" \in DOMAIN pl.player
    \/ /\ pl.type = "world"
       /\ \E i \in 1..Len(pl.chat) : \E j \in 1..Len(pl.chat[i].message) : pl.chat[i].message[j] \in tokens
    \/ /\ pl.type \in {"chat", "npcChat"}
       /\ \E j \in 1..Len(pl.message) : pl.message[j] \in tokens

\* C6: no message sent over a real-time channel (tick payload, world-view
\* payload, chat broadcast, npcChat hint) contains the apiKey of any player.
C6_NoTokenOnRealTimeChannels ==
    \A m \in sent : m.to # "http" => ~discloses(m.payload)

\* C6 witness: a world-view payload that lists both players and a chat line
\* has just been sent.
C6_Witness ==
    \E m \in sent :
        /\ m.payload.type = "world"
        /\ Len(m.payload.players) = 2
        /\ Len(m.payload.chat) >= 1

\* The player entries a response lists besides the requester's own record.
listedPlayers(pl) ==
    IF pl.type \in {"/state", "/world", "/leaderboard"} /\ pl.ok
    THEN {pl.players[i] : i \in 1..Len(pl.players)}
    ELSE {}

\* C7: no HTTP response discloses the apiKey of a player other than the one
\* the request authenticated as: a state query as P carries no other player's
\* apiKey, and the public snapshot and the leaderboard carry no apiKey at all.
C7_NoForeignTokenInResponses ==
    \A m \in sent : m.to = "http" =>
        \A e \in listedPlayers(m.payload) : e.id # m.as => "apiKey" \notin DOMAIN e

\* The grid and height map genWorld builds when setSeed(seed) ran just before it.
seededWorld(seed) == genTiles(xmur3(seed), seededTreeCols(xmur3(seed), 0))
seededSurface(seed) == genSurface(xmur3(seed))

\* C9: every boot that regenerates the world (no save, forced, save with other
\* dimensions, fallback after a failed load) ends with the grid and the
\* height map that the seed in effect determines, so any two of them agree.
C9_RegenerationDeterministic ==
    (call.op = "loadWorld" /\ call.generated) =>
        /\ world = seededWorld(call.seed)
        /\ surfaceMap = seededSurface(call.seed)

\* C10: on a generated world, the tile at the spawn coordinate returned by a
\* successful POST /join is non-solid.
C10_SpawnTileNonSolid ==
    \A m \in sent :
        (m.to = "http" /\ m.payload.type = "/join" /\ m.payload.ok /\ call.generated) =>
            ~isSolid(getTileOf(world, m.payload.spawn.x \div SUB, m.payload.spawn.y \div SUB))

\* The positions, in 1/SUB tile, that the mine messages of Spec carry.
minePositions ==
    {<<SUB, (genHeight(1, xmur3("moltwars")) - 2) * SUB>>, <<3 * SUB, 10 * SUB>>,
     <<WORLD_W * SUB, 3 * SUB>>, <<-SUB, 5 * SUB>>, <<SUB, WORLD_H * SUB>>,
     <<SUB \div 2, 3 * SUB>>}

\* (x, y) names a cell of the grid: whole numbers inside it.
inGridCell(x, y) ==
    /\ x % SUB = 0 /\ y % SUB = 0
    /\ x >= 0 /\ y >= 0 /\ x < WORLD_W * SUB /\ y < WORLD_H * SUB

\* The number of items a slot counts for (what `v || 0` reads).
countOf(v) == IF v.k = "num" THEN v.n ELSE 0

\* C11: a mine intent at (x, y) takes effect exactly when (x, y) is a cell of
\* the grid holding a non-empty tile: that tile becomes empty, the matching
\* item count and the mined-blocks stat rise by one; in every other case the
\* grid, the actor's inventory and the stat are unchanged.
C11_MineExactlyOnNonEmptyTile ==
    [][\A p \in PlayerIds : \A c \in minePositions :
         mine(p, c[1], c[2]) =>
            IF inGridCell(c[1], c[2]) /\ isSolid(getTileOf(world, c[1] \div SUB, c[2] \div SUB))
            THEN LET t == getTileOf(world, c[1] \div SUB, c[2] \div SUB)
                 IN  /\ world' = setTileOf(world, c[1] \div SUB, c[2] \div SUB, TILE_AIR)
                     /\ \A i \in Items :
                          countOf(players'[p].inv[i]) =
                             countOf(players[p].inv[i]) + (IF i = minedItem(t) THEN 1 ELSE 0)
                     /\ players'[p].stats.blocksMined = players[p].stats.blocksMined + 1
            ELSE /\ world' = world
                 /\ players'[p].inv = players[p].inv
                 /\ players'[p].stats.blocksMined = players[p].stats.blocksMined]_vars

\* The names the join requests of SpecBoot carry, and equality ignoring case.
joinNames == {"Ada", "ada", "Bob", "Cy"}
sameName(a, b) == a = b \/ {a, b} = {"Ada", "ada"}

\* The response of the last step is the HTTP response `status` of POST /join.
joinAnswered(status) ==
    \E m \in sent' : m.to = "http" /\ m.payload.type = "/join" /\ m.payload.status = status

\* The step created exactly one record, carrying `name`.
joinCreated(name) ==
    \E id \in DOMAIN players' \ DOMAIN players :
        /\ DOMAIN players' = DOMAIN players \cup {id}
        /\ players'[id].name = name
        /\ \A q \in DOMAIN players : players'[q] = players[q]

\* No two player records carry names that are equal ignoring case.
namesUnique ==
    \A p, q \in DOMAIN players : p # q => ~sameName(players[p].name, players[q].name)

\* C12 as stated: names stay unique ignoring case; a request with a name no
\* record carries succeeds and creates a record, a request whose name matches
\* a record's name ignoring case gets the conflict error and creates none.
C12_DuplicateNameConflict ==
    /\ []namesUnique
    /\ [][\A name \in joinNames : \A spawnX \in 0..(WORLD_W - 1) :
            join(name, spawnX) =>
               IF \E p \in DOMAIN players : sameName(players[p].name, name)
               THEN players' = players /\ joinAnswered(409)
               ELSE joinCreated(name) /\ joinAnswered(200)]_vars

\* C12 amended: the same while fewer than MAX_PLAYERS players are active; at
\* capacity every request gets the capacity error and creates no record.
C12_DuplicateNameConflictBelowCapacity ==
    /\ []namesUnique
    /\ [][\A name \in joinNames : \A spawnX \in 0..(WORLD_W - 1) :
            join(name, spawnX) =>
               IF Cardinality({p \in DOMAIN players : isActivePlayer(players[p], now)})
                     >= MAX_PLAYERS
               THEN players' = players /\ joinAnswered(429)
               ELSE IF \E p \in DOMAIN players : sameName(players[p].name, name)
               THEN players' = players /\ joinAnswered(409)
               ELSE joinCreated(name) /\ joinAnswered(200)]_vars

\* C12 witness: "Ada" holds a record and a later request got the conflict error.
C12_Witness ==
    /\ \E p \in DOMAIN players : sameName(players[p].name, "ada")
    /\ Cardinality(DOMAIN players) = 1
    /\ \E m \in sent : m.to = "http" /\ m.payload.type = "/join" /\ m.payload.status = 409

\* The targets and tile kinds the build messages of Spec carry.
buildCells == {<<1, genHeight(1, xmur3("moltwars")) - 2>>, <<3, 10>>, <<WORLD_W, 3>>,
               <<-1, 5>>, <<1, WORLD_H>>, <<3, 0>>}
buildTiles == {TILE_ORE, TILE_TREE, TILE_GRASS}

\* C13: a build step takes one of the matching item exactly when an in-grid
\* tile at (x, y) changes from empty to the requested kind in that step; a
\* build that places no tile changes neither the grid nor the inventory.
C13_BuildPaysOnlyForPlacedTile ==
    [][\A p \in PlayerIds : \A c \in buildCells : \A t \in buildTiles :
         build(p, c[1], c[2], t) =>
            IF /\ ~OutOfBounds(c[1], c[2])
               /\ getTileOf(world, c[1], c[2]) = TILE_AIR
               /\ getTileOf(world', c[1], c[2]) = t
            THEN /\ world' = setTileOf(world, c[1], c[2], t)
                 /\ \A k \in Items :
                       countOf(players'[p].inv[k]) =
                          countOf(players[p].inv[k]) - (IF k = buildItem(t) THEN 1 ELSE 0)
            ELSE /\ world' = world
                 /\ players'[p].inv = players[p].inv]_vars

\* Every item count in every chest is a number >= 0 (or absent).
chestCountsNonNegative ==
    \A key \in DOMAIN chests : \A i \in Items :
        chests[key][i] = Undef \/ (chests[key][i].k = "num" /\ chests[key][i].n >= 0)

\* C14: after any sequence of openChest, putChest and takeChest with any
\* numeric count, every chest count is >= 0, and a put or a take whose source
\* side holds less than the requested count changes neither the actor's
\* inventory nor the chests.
C14_ChestCountsNonNegative ==
    /\ []chestCountsNonNegative
    /\ [][\A p \in PlayerIds : \A n \in {-1, 1} :
            /\ (putChest(p, 0, 0, ITEM_WOOD, n) /\ countOf(players[p].inv[ITEM_WOOD]) < n)
                  => (players'[p].inv = players[p].inv /\ chests' = chests)
            /\ (takeChest(p, 0, 0, ITEM_WOOD, n)
                  /\ countOf(chestOrEmpty(chestKey(0, 0))[ITEM_WOOD]) < n)
                  => (players'[p].inv = players[p].inv /\ chests' = chests)]_vars

\* The damage of the attacker's equipped weapon, 10 without one.
claimDmg(active) == IF active = ITEM_SWORD THEN 5 ELSE 10

\* The target's health after a hit of the actor's weapon, floored at 0.
hitHp(p, t) == Max(0, players[t].hp - claimDmg(players[p].active))

\* The ground line of a column: two rows above the row its height map records.
groundLine(col) == surfaceMap[col] - 2

\* C15: an applied attack that brings the target's health to 0 raises the
\* attacker's kills and the target's deaths by one, resets the target's health
\* to 100, moves the target to its spawn column at the ground line and appends
\* one death announcement to the chat history; one that leaves health above 0
\* changes the target's health only.
C15_KillBookkeeping ==
    [][\A p \in PlayerIds : \A t \in PlayerIds :
         (attack(p, t) /\ now - players[p].lastAttack >= claimCd(players[p].active)) =>
            IF hitHp(p, t) = 0
            THEN /\ players'[p].stats.kills = players[p].stats.kills + 1
                 /\ players'[t].stats.deaths = players[t].stats.deaths + 1
                 /\ players'[t].hp = 100
                 /\ players'[t].x = players[t].spawn.x
                 /\ players'[t].y = groundLine(players[t].spawn.x \div SUB) * SUB
                 /\ LET l1 == Append(chatLog, [ts |-> now, message |-> <<players[t].name, " died and respawned">>])
                    IN  chatLog' = IF Len(chatLog) < CHAT_MAX THEN l1 ELSE Tail(l1)
            ELSE /\ players'[t].hp = hitHp(p, t)
                 /\ \A q \in PlayerIds :
                       /\ players'[q].stats.kills = players[q].stats.kills
                       /\ players'[q].stats.deaths = players[q].stats.deaths
                       /\ players'[q].x = players[q].x
                       /\ players'[q].y = players[q].y
                       /\ q # t => players'[q].hp = players[q].hp
                 /\ chatLog' = chatLog]_vars

\* C15 witness: p1 has killed p2, who is back at full health at its spawn
\* column, and the death is in the chat history.
C15_Witness ==
    /\ players["p1"].stats.kills = 1
    /\ players["p2"].stats.deaths = 1
    /\ players["p2"].hp = 100
    /\ players["p2"].y = groundLine(players["p2"].spawn.x \div SUB) * SUB
    /\ \E i \in 1..Len(chatLog) : chatLog[i].message = <<"Bob", " died and respawned">>

\* The animal of the world whose payload id is `id`.
animalById(as, id) == as[CHOOSE i \in 1..Len(as) : as[i].id = id]
hasAnimalId(as, id) == \E i \in 1..Len(as) : as[i].id = id

\* The handler's lookup animals.get(id) finds the animal whose payload id is id.
foundById(as, id) == animalsHas(id) /\ as[animalsIndex(id)].id = id

\* Every animal of the world is found under the id its payloads carry.
animalsFoundById == \A i \in 1..Len(animals) : foundById(animals, animals[i].id)

\* C16: every animal of the world (generated, respawned or restored) is found
\* by attackAnimal under the id its payloads carry, and an attackAnimal naming
\* that id takes 5 from its health and sets its velocity away from the
\* attacker; at health <= 0 the animal is gone after the step and the attacker
\* holds one more meat.
C16_AttackAnimalById ==
    /\ []animalsFoundById
    /\ [][\A p \in PlayerIds : \A id \in {"boar-1", "boar-2"} :
         (attackAnimal(p, id) /\ hasAnimalId(animals, id)) =>
            LET a == animalById(animals, id)
            IN  IF a.hp - 5 <= 0
                THEN /\ ~hasAnimalId(animals', id)
                     /\ countOf(players'[p].inv[ITEM_MEAT]) = countOf(players[p].inv[ITEM_MEAT]) + 1
                ELSE /\ hasAnimalId(animals', id)
                     /\ animalById(animals', id).hp = a.hp - 5
                     /\ animalById(animals', id).vx = Sign(a.x - players[p].x) * 2
                     /\ animalById(animals', id).vy = Sign(a.y - players[p].y) * 2]_vars

\* Connection c is registered for outbound payloads.
registered(socks, c) == \E i \in 1..Len(socks) : socks[i].ws = c

\* C17: a close removes the registration of the closed connection only: every
\* other registered connection stays registered for its player (a newer
\* connection of the same player included) and no player record changes; a
\* later connection with a player's identity and token is accepted.
C17_CloseRemovesOwnRegistrationOnly ==
    [][/\ \A c \in DOMAIN conns :
            close(c) =>
               /\ \A i \in 1..Len(sockets) :
                     sockets[i].ws # c => \E j \in 1..Len(sockets') : sockets'[j] = sockets[i]
               /\ players' = players
       /\ \A p \in PlayerIds :
            \A c \in {"c3", "c4"} :
               connect(c, p, KeyOf(p)) =>
                  /\ conns'[c].readyState = "open"
                  /\ \E j \in 1..Len(sockets') : sockets'[j] = [pid |-> p, ws |-> c]]_vars

\* The step leaves the grid, every inventory, chest, health value, stat and
\* last-attack timestamp as they were, and every connection open and registered.
intentIgnored ==
    /\ world' = world
    /\ chests' = chests
    /\ \A q \in DOMAIN players :
          /\ players'[q].inv = players[q].inv
          /\ players'[q].hp = players[q].hp
          /\ players'[q].stats = players[q].stats
          /\ players'[q].lastAttack = players[q].lastAttack
    /\ conns' = conns
    /\ sockets' = sockets

\* C18: an intent whose precondition fails is ignored; stated for the attack
\* intent, whose precondition fails when the cooldown has not elapsed or the
\* target is unknown.
C18_FailedIntentIgnored ==
    [][\A p \in PlayerIds : \A t \in PlayerIds \cup {"nobody"} :
         (/\ attack(p, t)
          /\ \/ t \notin DOMAIN players
             \/ now - players[p].lastAttack < claimCd(players[p].active)) => intentIgnored]_vars

\* No tick payload lists a player whose last activity is the timeout or more
\* ago, and every player keeps its record, identity and token.
staleUnlistedAndKept ==
    /\ \A pl \in tickPayloads : \A i \in 1..Len(pl.players) :
          now - pl.players[i].lastSeen < INACTIVE_TIMEOUT_MS
    /\ \A id \in PlayerIds :
          id \in DOMAIN players /\ players[id].id = id /\ players[id].apiKey = KeyOf(id)

\* Player q has a registered connection that is open.
connectedOpen(q) ==
    \E i \in 1..Len(sockets) : sockets[i].pid = q /\ conns[sockets[i].ws].readyState = "open"

\* C19: a player whose last activity is older than the timeout is in no
\* nearby-player list of a tick payload while its record stays in the world,
\* and a player with an open registered connection counts as active in every
\* tick: each payload of the tick to a player within view of it lists it.
C19_StaleHiddenConnectedActive ==
    /\ []staleUnlistedAndKept
    /\ [][\A r \in TickDraws : \A q \in PlayerIds :
            (tick([r EXCEPT !.animalSpawn = FALSE, !.npcSpawn = FALSE,
                            !.mine = FALSE, !.mineFwd = FALSE]) /\ connectedOpen(q)) =>
               \A m \in sent' :
                  (within(players[q], m.payload.player) /\ within(players'[q], m.payload.player))
                     => \E i \in 1..Len(m.payload.players) : m.payload.players[i].id = q]_vars

\* The registered connections that are open, and those that are not.
openEntries == {sockets[i] : i \in {j \in 1..Len(sockets) : conns[sockets[j].ws].readyState = "open"}}
stalledEntries == {sockets[i] : i \in {j \in 1..Len(sockets) : conns[sockets[j].ws].readyState # "open"}}

\* C20: a tick that meets a registered connection that is not open sends it
\* nothing and still steps every animal and every NPC and sends one tick
\* payload to every registered connection that is open.
C20_TickSkipsStalledConnection ==
    [][\A r \in TickDraws :
         (tick([r EXCEPT !.animalSpawn = FALSE, !.npcSpawn = FALSE,
                         !.mine = FALSE, !.mineFwd = FALSE]) /\ stalledEntries # {}) =>
            /\ \A m \in sent' : \A e \in stalledEntries : m.to # e.ws
            /\ \A e \in openEntries :
                  \E m \in sent' : /\ m.to = e.ws
                                   /\ m.payload.type = "tick"
                                   /\ m.payload.player.id = e.pid
            /\ Len(animals') = Len(animals)
            /\ \A i \in 1..Len(animals) : animals'[i].vx = r.vx
            /\ \A i \in 1..Len(npcs) :
                  npcs'[i].stats.playtimeMs > npcs[i].stats.playtimeMs]_vars

\* C20 witness: a tick has just sent a payload to an open connection while
\* another registered connection is not open.
C20_Witness ==
    /\ stalledEntries # {}
    /\ \E m \in sent : /\ m.payload.type = "tick"
                       /\ \E e \in openEntries : e.ws = m.to
    /\ \E i \in 1..Len(npcs) : npcs[i].stats.playtimeMs > 0

\* ---- C21 ----
persisted == disk.exists /\ disk.parses
docPlayer(id) ==
    disk.doc.players[CHOOSE i \in 1..Len(disk.doc.players) : disk.doc.players[i].id = id]
snapshotIsCurrent ==
    /\ disk.doc.world = world
    /\ disk.doc.villages = villages
    /\ disk.doc.chat = chatLog
    /\ DOMAIN disk.doc.chests = DOMAIN chests
    /\ Len(disk.doc.animals) = Len(animals)
    /\ Len(disk.doc.npcs) = Len(npcs)
    /\ \A i \in 1..Len(npcs) :
          /\ disk.doc.npcs[i].x = npcs[i].x /\ disk.doc.npcs[i].y = npcs[i].y
          /\ disk.doc.npcs[i].stats = npcs[i].stats
    /\ {disk.doc.players[i].id : i \in 1..Len(disk.doc.players)} = DOMAIN players
    /\ \A id \in DOMAIN players :
          /\ docPlayer(id).hp = players[id].hp
          /\ docPlayer(id).x = players[id].x /\ docPlayer(id).y = players[id].y
          /\ docPlayer(id).stats = players[id].stats
          /\ docPlayer(id).lastAttack = players[id].lastAttack
noTornDeath ==
    persisted => \A i \in 1..Len(disk.doc.players) : disk.doc.players[i].hp \in 1..100
\* C21: a handler, a tick and a snapshot write never interleave. A step that
\* writes the file changes nothing in memory and the document it leaves is the
\* state of that moment, which is a state between two whole steps; no document
\* ever holds a death whose loot has been moved while the victim, at health 0,
\* has not yet been reset.
C21_SnapshotBetweenWholeSteps ==
    /\ []noTornDeath
    /\ [][disk' # disk /\ persisted' =>
            /\ snapshotIsCurrent'
            /\ <<world, players, chests, animals, npcs, chatLog>>' =
               <<world, players, chests, animals, npcs, chatLog>>]_vars
\* a snapshot written after p2 died and was reset, with the loot in a chest
C21_Witness ==
    /\ persisted /\ snapshotIsCurrent /\ call.op # "exit"
    /\ docPlayer("p2").stats.deaths = 1 /\ docPlayer("p2").hp = 100
    /\ docPlayer("p1").stats.kills = 1

\* ---- C22 ----
animalValues(as) == [i \in 1..Len(as) |-> [f \in DOMAIN as[i] \ {"key"} |-> as[i][f]]]
restoredAllBut ==
    /\ world' = world /\ villages' = villages /\ chests' = chests
    /\ animalValues(animals') = animalValues(animals)
    /\ npcs' = npcs /\ players' = players /\ chatLog' = chatLog
\* C22: a boot that reads the document the previous process wrote on its way
\* out, with the same grid dimensions, ends with the tile grid, the surface
\* height map, the villages, chests, animals, NPCs, players and chat history
\* that process had.
C22_SaveLoadRoundTrip ==
    [][call.op = "exit" /\ persisted /\ snapshotIsCurrent =>
          restoredAllBut /\ surfaceMap' = surfaceMap]_vars

\* ---- C23 ----
unreadable == disk.exists /\ ~disk.parses
\* JSON.parse threw before setSeed ran: seedInt is still 0
unseededSurface == genSurface(0)
regenerated ==
    /\ call.op = "loadWorld"
    /\ seedInt = 0 /\ surfaceMap = unseededSurface
    /\ \A x \in 0..(WORLD_W - 1) :
          /\ surfaceMap[x] \in minSurface..maxSurface
          /\ \A y \in 0..(WORLD_H - 1) :
                /\ y < surfaceMap[x] - 1 => getTileOf(world, x, y) \in {TILE_SKY, TILE_TREE}
                /\ y = surfaceMap[x] - 1 => getTileOf(world, x, y) = TILE_GRASS
                /\ y >= surfaceMap[x] =>
                      getTileOf(world, x, y) \in {TILE_DIRT, TILE_STONE, TILE_ORE, TILE_AIR}
                /\ y \in surfaceMap[x]..(surfaceMap[x] + 2) => getTileOf(world, x, y) # TILE_AIR
    /\ animalValues(animals) = animalValues(genAnimals(surfaceMap))
    /\ npcs = InitNpcs
C24_FinalSnapshotOnShutdown ==
    [][call.op # "exit" /\ call'.op = "exit" =>
          /\ call'.saved
          /\ disk' # disk /\ persisted' => snapshotIsCurrent']_vars

\* ---- C25 ----
\* a step of SpecNet that changes a player and nothing a tick, a chat line or a
\* world socket changes: a move message
moveStep ==
    /\ players' # players
    /\ <<npcs, animals, chatLog, worldSockets, world>>' = <<npcs, animals, chatLog, worldSockets, world>>
movedBy(p) == <<players'[p].x - players[p].x, players'[p].y - players[p].y>>
\* C25: a move message changes the sender's position by a delta whose
\* components are -1, 0 or 1 tile, and only into a cell that is not solid;
\* the facing follows the sign of a horizontal move.
C25_MoveByUnitDelta ==
    [][moveStep =>
          \A p \in DOMAIN players :
             /\ movedBy(p)[1] \in {-SUB, 0, SUB} /\ movedBy(p)[2] \in {-SUB, 0, SUB}
             /\ movedBy(p) # <<0, 0>> =>
                   ~isSolid(getTileOf(world, players'[p].x \div SUB, players'[p].y \div SUB))
             /\ movedBy(p)[1] > 0 => players'[p].look = 1
             /\ movedBy(p)[1] < 0 => players'[p].look = 0]_vars

\* ---- C26 ----
meatOf(ps, p) == OrZero(ps[p].inv[ITEM_MEAT])
healthInRange == \A p \in DOMAIN players : players[p].hp \in 0..100
chatCapped == Len(chatLog) <= CHAT_MAX
\* C27: the chat history never holds more than CHAT_MAX entries; whatever
\* writes to it appends one entry at the end and, when that makes it longer
\* than CHAT_MAX, drops the entry at the front, so that it holds the latest
\* entries in the order they came.
C27_ChatKeepsLatest ==
    /\ []chatCapped
    /\ [][chatLog' # chatLog =>
            LET l1 == Append(chatLog, chatLog'[Len(chatLog')])
            IN  /\ chatLog'[Len(chatLog')].ts = now
                /\ chatLog' = IF Len(l1) > CHAT_MAX THEN SubSeq(l1, 2, Len(l1)) ELSE l1]_vars
\* a full history from which the line about p1's leaving has been evicted
C27_Witness ==
    /\ Len(chatLog) = CHAT_MAX
    /\ conns["c1"].readyState = "closed"
    /\ \A i \in 1..Len(chatLog) : chatLog[i].message # <<"Ada", " left the world">>
    /\ \E i \in 1..Len(chatLog) : chatLog[i].message = <<"Bob", " left the world">>

\* ---- C28 ----
\* a build message of p for tile t at cell c would place the tile and take
\* one of the matching item
buildSucceeds(p, c, t) ==
    ENABLED (/\ build(p, c[1], c[2], t)
             /\ UNCHANGED <<call, attackAt>>
             /\ getTileOf(world', c[1], c[2]) = t
             /\ countOf(players'[p].inv[buildItem(t)]) = countOf(players[p].inv[buildItem(t)]) - 1)
\* C28: whenever a cell of the grid holds one of the two kinds that do not
\* block movement (air, sky) and a connected player holds at least one of the
\* item a tile kind is built from, that player's build message for the cell and
\* kind places the tile and takes one item.
C28_BuildOnEitherEmptyKind ==
    \A pc \in Senders(PlayerIds) : \A c \in buildCells : \A t \in buildTiles :
       (/\ ~OutOfBounds(c[1], c[2])
        /\ ~isSolid(getTileOf(world, c[1], c[2]))
        /\ buildItem(t) # Null
        /\ countOf(players[pc[1]].inv[buildItem(t)]) >= 1)
       => buildSucceeds(pc[1], c, t)

\* ---- C29 ----
goalDue(i) == npcs[i].goal = Null \/ now > npcs[i].goalUntil
goalsKnown == \A i \in 1..Len(npcs) : npcs[i].goal \in {Null, "shaft", "diag"}
\* assignNpcGoal on an NPC moved to a row at or above its column's ground line
shaftAtGround ==
    \A i \in 1..Len(npcs) : \A row \in 0..surfaceAt(surfaceMap, npcs[i].x) :
       \A r \in TickDraws :
          LET n == assignNpcGoal(surfaceMap, [npcs[i] EXCEPT !.y = row * SUB], r, now)
          IN  n.goal = "shaft" /\ n.goalStage = npcs[i].goalStage
\* C29: a tick gives an NPC a new goal exactly when it has none or the clock
\* is past the goal's expiry. At or above the ground line the goal is shaft;
\* underground it follows the three-phase counter (shaft, diag, shaft, and
\* again), so diag never follows diag, and shaft and diag are the only goals.
C29_GoalCycle ==
    /\ [](goalsKnown /\ shaftAtGround)
    /\ [][\A i \in 1..Len(npcs) :
            LET n == npcs[i]
                m == npcs'[i]
                under == isBelowDirt(surfaceMap, n.x, n.y)
            IN  IF m.stats.playtimeMs # n.stats.playtimeMs /\ goalDue(i)
                THEN /\ m.goalUntil = now + 20000 \div TIME_UNIT
                     /\ m.goal = IF under /\ n.goalStage % 3 = 1 THEN "diag" ELSE "shaft"
                     /\ m.goalStage = IF under THEN (n.goalStage + 1) % 3 ELSE n.goalStage
                     /\ m.goal = "diag" => n.goal # "diag"
                ELSE <<m.goal, m.goalUntil, m.goalStage>> = <<n.goal, n.goalUntil, n.goalStage>>]_vars
\* the fifth goal of the generated NPC: diag for the second time
C29_Witness ==
    /\ npcs[1].goal = "diag" /\ npcs[1].goalStage = 2
    /\ now >= BootTime + MaxGoals * (20000 \div TIME_UNIT + 1)
    /\ npcs[1].goalUntil > now

\* ---- C30 ----
\* the cells a step empties, and those among them that give item k
removedCells == {i \in DOMAIN world : world[i] \notin {TILE_AIR, TILE_SKY} /\ world'[i] = TILE_AIR}
RECURSIVE npcGain(_, _)
npcGain(i, k) ==
    IF i = 0 THEN 0
    ELSE npcGain(i - 1, k) +
         (IF k = "blocksMined"
          THEN npcs'[i].stats.blocksMined - npcs[i].stats.blocksMined
          ELSE countOf(npcs'[i].inv[k]) - countOf(npcs[i].inv[k]))
\* C30: in every tick the NPCs' inventories gain, item by item, one piece for
\* each tile the tick removes (tree: wood, ore: ore, stone: stone, else dirt),
\* and their mined-blocks stats grow by the number of tiles removed.
C30_NpcMiningCounted ==
    [][/\ \A k \in Items :
            npcGain(Len(npcs), k) = Cardinality({i \in removedCells : minedItem(world[i]) = k})
       /\ npcGain(Len(npcs), "blocksMined") = Cardinality(removedCells)]_vars

\* ---- C31 ----
\* The Map keys of a population, in insertion order.
keysOf(pop, f) == [i \in 1..Len(pop) |-> pop[i][f]]

\* The population `after` is the newest Min(Len(before), cap) entries of
\* `before`, in order, followed by at most one new entry, which is there only
\* when `before` was below the cap.
cappedThenGrown(before, after, cap) ==
    LET kept == Min(Len(before), cap)
    IN  /\ Len(after) <= cap
        /\ Len(after) \in {kept, kept + 1}
        /\ Len(after) = kept + 1 => Len(before) < cap
        /\ SubSeq(after, 1, kept) = SubSeq(before, Len(before) - kept + 1, Len(before))
        /\ Len(after) = kept + 1 => \A i \in 1..Len(before) : before[i] # after[kept + 1]

\* C31: every tick step (the steps that advance the NPCs) leaves at most
\* AnimalCap animals and NpcCap NPCs whatever the populations were before, adds
\* at most one of each and only below the cap, and removes the oldest-inserted
\* entries when above it.
C31_PopulationsCapped ==
    [][npcs' # npcs =>
         /\ cappedThenGrown(keysOf(animals, "key"), keysOf(animals', "key"), AnimalCap)
         /\ cappedThenGrown(keysOf(npcs, "id"), keysOf(npcs', "id"), NpcCap)]_vars

\* A tick has cut both populations from above the cap down to it.
C31_Witness ==
    /\ Len(animals) = AnimalCap /\ Len(npcs) = NpcCap
    /\ animals[1].key = "boar-3"
    /\ npcs[1].id = "npc-2"
    /\ npcs[1].stats.playtimeMs > 0

\* ---- C32 ----
\* genWorld ran in this process: only genWorld writes surfaceMap, and every
\* entry it writes is at least minSurface.
generated == \E x \in 0..(WORLD_W - 1) : surfaceMap[x] # 0

\* The row of the topmost solid tile of column x.
topSolid(x) ==
    CHOOSE y \in 0..(WORLD_H - 1) :
        /\ isSolid(getTile(x, y))
        /\ \A z \in 0..(y - 1) : ~isSolid(getTile(x, z))

surfaceInBand == \A x \in 0..(WORLD_W - 1) : surfaceMap[x] \in minSurface..maxSurface

\* the cave loop skips the rows y <= s + 2
bufferIntact ==
    \A x \in 0..(WORLD_W - 1) : \A y \in 0..Min(surfaceMap[x] + 2, WORLD_H - 1) :
        getTile(x, y) # TILE_AIR

\* C32: right after world generation every surfaceMap entry is the row of the
\* topmost solid tile of its column and lies in [minSurface, maxSurface], and
\* no cell at or above that row plus the buffer is carved.
C32_SurfaceMapIsTopSolid ==
    call.op = "loadWorld" /\ generated =>
        /\ \A x \in 0..(WORLD_W - 1) : surfaceMap[x] = topSolid(x)
        /\ surfaceInBand
        /\ bufferIntact

\* What generation does establish: the grass row is one above the entry, and a
\* tree stands two rows higher still.
C32_GrassAboveSurface ==
    call.op = "loadWorld" /\ generated =>
        /\ \A x \in 0..(WORLD_W - 1) : topSolid(x) \in {surfaceMap[x] - 1, surfaceMap[x] - 3}
        /\ surfaceInBand
        /\ bufferIntact

\* ---- C33 ----
\* The tile row and column a connected player stands in, and the two cells
\* gravity looks at.
rowOf(ps, id) == ps[id].y \div SUB
belowIsOpen(id) ==
    /\ ~isSolid(getTile(players[id].x \div SUB, rowOf(players, id) + 1))
    /\ rowOf(players, id) + 1 < WORLD_H
embedded(id) == isSolid(getTile(players[id].x \div SUB, rowOf(players, id)))

\* A non-solid cell with a solid cell or the world floor directly below.
resting(id) ==
    /\ ~embedded(id)
    /\ \/ rowOf(players, id) = WORLD_H - 1
       \/ isSolid(getTile(players[id].x \div SUB, rowOf(players, id) + 1))

\* every tick of SpecSettle advances the NPCs' playtime
settleTick == npcs' # npcs

fallsAndStays ==
    \A id \in PlayerIds :
        /\ connectedOpen(id) /\ belowIsOpen(id) => rowOf(players', id) >= rowOf(players, id) + 1
        /\ connectedOpen(id) /\ resting(id) => players'[id] = [players[id] EXCEPT !.lastSeen = now]

allResting == \A id \in PlayerIds : connectedOpen(id) => resting(id)

\* C33 as written: a tick makes every connected player with an open cell below
\* fall at least one row and pushes every embedded one up one row; every
\* connected player comes to rest and stays.
C33_GravitySettles ==
    /\ [][settleTick =>
            /\ fallsAndStays
            /\ \A id \in PlayerIds :
                  connectedOpen(id) /\ embedded(id) =>
                      rowOf(players', id) = rowOf(players, id) - 1]_vars
    /\ <>[]allResting

\* C33 (amended): the push takes an embedded player up one row only when the
\* cell below it is solid or the floor; with an open cell below it falls like
\* any other player.
C33_GravitySettlesOrFalls ==
    /\ [][settleTick =>
            /\ fallsAndStays
            /\ \A id \in PlayerIds :
                  connectedOpen(id) /\ embedded(id) /\ ~belowIsOpen(id) =>
                      rowOf(players', id) = Max(0, rowOf(players, id) - 1)]_vars
    /\ <>[]allResting

\* p1 came to rest at the bottom of the shaft of column 2, below the row it
\* could have been pushed to, and p2 on the grass of column 3.
C33_Witness ==
    /\ getTile(2, 1) = TILE_AIR
    /\ players["p1"].x = 2 * SUB /\ rowOf(players, "p1") = 4
    /\ rowOf(players, "p2") = surfaceMap[3] - 2
    /\ allResting
    /\ npcs[1].stats.playtimeMs > 0

\* ---- C34 ----
\* The draws of a tick in which nothing spawns and no NPC mines.
quietDraws ==
    {[r EXCEPT !.animalSpawn = FALSE, !.npcSpawn = FALSE, !.mine = FALSE, !.mineFwd = FALSE] :
        r \in TickDraws}

\* C34: composing the payloads only reads: after a tick step every animal and
\* every NPC (position, roam target, playtime) is what tickAnimals and tickNpcs
\* left, whatever the number of connected players.
C34_PayloadOnlyReads ==
    [][npcs' # npcs =>
         \E r \in quietDraws :
             /\ animals' = tickAnimals(animals, world, surfaceMap, r, issued)
             /\ npcs' = tickNpcs(npcs, world, surfaceMap, r, now, issued).npcs]_vars

\* ---- C36 ----
\* Array.from(players.values()).filter(isActivePlayer).length
activeCount == Cardinality({p \in DOMAIN players : isActivePlayer(players[p], now)})

\* C36: a join request made at capacity gets the capacity error and creates no
\* record, and the number of active players never exceeds MAX_PLAYERS.
C36_ActiveWithinCapacity ==
    /\ [](activeCount <= MAX_PLAYERS)
    /\ [][join("Cy", 3) /\ activeCount >= MAX_PLAYERS =>
            /\ players' = players
            /\ \E m \in sent' : m.to = "http" /\ m.payload.type = "/join" /\ m.payload.status = 429]_vars

\* The half of C36 that holds: the answer to a request at capacity.
C36_FullServerRefuses ==
    [][join("Cy", 3) /\ activeCount >= MAX_PLAYERS =>
            /\ players' = players
            /\ \E m \in sent' : m.to = "http" /\ m.payload.type = "/join" /\ m.payload.status = 429]_vars

\* ---- C35 ----
onGrid(e) ==
    /\ 0 <= e.x /\ e.x <= (WORLD_W - 1) * SUB
    /\ 0 <= e.y /\ e.y <= (WORLD_H - 1) * SUB

\* C35: on a generated world every player, NPC and animal stays on the grid
\* (0 <= x <= WORLD_W - 1 and 0 <= y <= WORLD_H - 1) through session
\* creations, moves, gravity, animal and NPC ticks, deaths and respawns.
C35_EveryoneOnGrid ==
    /\ \A p \in DOMAIN players : onGrid(players[p])
    /\ \A i \in 1..Len(npcs) : onGrid(npcs[i])
    /\ \A i \in 1..Len(animals) : onGrid(animals[i])

\* Bob joined at the right edge and rose to the top row, Ada walked left at
\* the left edge, died and respawned, and a boar and an NPC spawned in the
\* ticks.
C35_Witness ==
    /\ "p2" \in DOMAIN players
    /\ players["p2"].y = 0
    /\ players["p1"].stats.deaths = 1 /\ players["p1"].look = 0
    /\ Len(animals) = AnimalCap /\ Len(npcs) = NpcCap
    /\ npcs[1].stats.playtimeMs > 0

\* ---- C37 ----
\* Whoever has an item equipped holds at least one of it.
equippedIsHeld ==
    \A p \in DOMAIN players :
        players[p].active # Null => OrZero(players[p].inv[players[p].active]) > 0

\* What equip and unequip do to the sender.
equipSetsHeldItem ==
    \A p \in PlayerIds :
        /\ equip(p, ITEM_SWORD) =>
              /\ players'[p].inv = players[p].inv
              /\ players'[p].active = IF OrZero(players[p].inv[ITEM_SWORD]) > 0
                                      THEN ITEM_SWORD ELSE players[p].active
        /\ unequip(p) => players'[p].active = Null

\* C37: equip sets the equipped item only when the sender holds one of it and
\* consumes nothing, unequip clears it, and whenever a player's equipped item
\* is set the player holds at least one of that item.
C37_EquippedItemIsHeld ==
    /\ []equippedIsHeld
    /\ [][equipSetsHeldItem]_vars

\* The half of C37 on the two handlers alone.
C37_EquipHandlers == [][equipSetsHeldItem]_vars

====
